---- MODULE Spec2Model ----
(***************************************************************************)
(* shed: the environment lifecycle controller (internal/docker), its HTTP  *)
(* facade's error mapping (internal/api) and the SSH session bridge's      *)
(* resize relay (internal/sshd, cmd/shed-server), over a model of the      *)
(* container runtime the controller drives.                                *)
(*                                                                         *)
(* Strings whose contents the code inspects are sequences: a shed name is  *)
(* a sequence of one-character strings, an error message is a sequence of  *)
(* phrases (strings.Contains is phrase occurrence).                        *)
(***************************************************************************)
EXTENDS Integers, Sequences, FiniteSets, TLC

VARIABLES
    containers,   \* runtime: container name -> [id, state, shed]
    volumes,      \* runtime: the set of volume names that exist
    nextId,       \* runtime: the id the next created container gets
    pc,           \* per caller: position inside the API call it is running
    req,          \* per caller: the request [op, name, keep]
    loc,          \* per caller: locals of the call (resp.ID, the pending error)
    res,          \* per caller: the HTTP response [http, code, status]
    hist,         \* per caller: what the call did (runtime calls, failures, pre-state)
    faulted,      \* monitor: some runtime request has failed with DaemonError
    scen,         \* monitor: progress of create -> stop -> start -> delete on one name
    winCh,        \* PTY session: window-change events the SSH layer holds for the relay
    sent,         \* PTY session: how many window-change events the caller has sent
    relay,        \* PTY session: the handleWindowResize goroutine [pc, win]
    resizeChan,   \* PTY session: the queue [buf, closed] between relay and resize loop
    exec,         \* PTY session: position of ExecInContainer
    loop,         \* PTY session: the resize loop goroutine [pc, size]
    ptySize,      \* runtime: the size of the remote exec's PTY
    ctxDone,      \* PTY session: the session's context is cancelled
    resizeFailed, \* monitor: some ContainerExecResize request has failed
    stdinCopy,    \* PTY session: the goroutine copying caller input to the remote
    stdoutCopy,   \* PTY session: the goroutine copying remote output to the caller
    remote,       \* runtime: the remote exec's process [exited, code]
    execErr,      \* PTY session: what ExecInContainer returned
    terminal,     \* PTY session: the exit status sent to the caller [exited, code]
    conn,         \* connection: handleSession [pc, user, seen, status, err]
    elapsed,      \* connection: poll intervals of time since waitForReady began
    connCalls,    \* monitor: what handleSession has called
    tmux,         \* the multiplexer inside the container of environment "a"
    mux,          \* the call of the multiplexer adapter in progress
    output,       \* parseTmuxSessions: the listing output given
    queried,      \* parseTmuxSessions: the shed name given
    sessions,     \* parseTmuxSessions: the result [sessions, err]
    seed,         \* per caller: the Repo of its create request and the clone's outcome
    arg,          \* the arguments a status, error or naming function is applied to
    val,          \* the results of that function
    clientCfg,    \* client: the ClientConfig [servers, default] and the last error
    peer          \* connection: the handleSession goroutine that is not running now

lifecycleVars == <<containers, volumes, nextId, pc, req, loc, res, hist, faulted, scen>>

streamVars == <<stdinCopy, stdoutCopy, remote, execErr, terminal>>

sessionVars ==
    <<winCh, sent, relay, resizeChan, exec, loop, ptySize, ctxDone, resizeFailed, streamVars>>

connVars == <<conn, elapsed, connCalls>>

muxVars == <<tmux, mux>>

parseVars == <<output, queried, sessions>>

extraVars == <<seed, arg, val, clientCfg, peer>>

serviceVars == <<connVars, muxVars, parseVars, extraVars>>

vars == <<lifecycleVars, sessionVars, serviceVars>>

-----------------------------------------------------------------------------
(* Bounds                                                                  *)

\* Concurrent API callers of ConcSpec (Spec runs caller 1 alone).
NumCallers == 2

\* Containers the runtime creates in one behaviour (caps nextId).
MaxIds == 3

\* Containers ever created in one run of the concurrent specification.
MaxConcIds == 2

\* Window-change events the caller sends in one PTY session.
MaxBurst == 11

\* Events the SSH layer holds for the relay before the sender waits.
WinChCap == 1

\* The largest exit code of a remote process.
MaxExitCode == 2

\* The most poll intervals that pass between two ticks waitForReady receives.
MaxTickGap == 2

\* The most lines of a listing output.
MaxLines == 2

\* The most containers of a listing.
MaxListed == 2

ExitCodes == 0..MaxExitCode

Procs == 1..NumCallers

SeqProcs == {1}

-----------------------------------------------------------------------------
(* internal/config/types.go: names                                         *)

MaxShedNameLength == 63

Lower ==
    {"a", "b", "c", "d", "e", "f", "g", "h", "i", "j", "k", "l", "m",
     "n", "o", "p", "q", "r", "s", "t", "u", "v", "w", "x", "y", "z"}

Digit == {"0", "1", "2", "3", "4", "5", "6", "7", "8", "9"}

\* ^[a-z][a-z0-9-]*[a-z0-9]$|^[a-z]$
shedNameRegex(name) ==
    \/ /\ Len(name) >= 2
       /\ name[1] \in Lower
       /\ \A i \in 2..(Len(name) - 1) : name[i] \in Lower \cup Digit \cup {"-"}
       /\ name[Len(name)] \in Lower \cup Digit
    \/ /\ Len(name) = 1
       /\ name[1] \in Lower

\* ValidateShedName without the match against shedNameRegex.
ValidateShedName_NoRegex(name) ==
    IF name = <<>> THEN <<"shed name cannot be empty">>
    ELSE IF Len(name) > MaxShedNameLength THEN <<"shed name cannot exceed 63 characters">>
    ELSE <<>>

\* The error ValidateShedName returns, <<>> for nil.
ValidateShedName(name) ==
    IF name = <<>> THEN <<"shed name cannot be empty">>
    ELSE IF Len(name) > MaxShedNameLength THEN <<"shed name cannot exceed 63 characters">>
    ELSE IF ~shedNameRegex(name) THEN <<"shed name must be lowercase alphanumeric with hyphens">>
    ELSE <<>>

ContainerPrefix == <<"s", "h", "e", "d", "-">>

VolumePrefix == <<"s", "h", "e", "d", "-">>

VolumeSuffix == <<"-", "w", "o", "r", "k", "s", "p", "a", "c", "e">>

\* ContainerName without the shed name.
ContainerName_PrefixOnly(shedName) == ContainerPrefix

ContainerName(shedName) == ContainerPrefix \o shedName

VolumeName(shedName) == VolumePrefix \o shedName \o VolumeSuffix

StatusRunning == "running"

StatusStopped == "stopped"

StatusStarting == "starting"

StatusError == "error"

ErrShedNotFound == "SHED_NOT_FOUND"

ErrShedAlreadyExists == "SHED_ALREADY_EXISTS"

ErrShedAlreadyRunning == "SHED_ALREADY_RUNNING"

ErrShedAlreadyStopped == "SHED_ALREADY_STOPPED"

ErrInvalidShedName == "INVALID_SHED_NAME"

ErrDockerError == "DOCKER_ERROR"

-----------------------------------------------------------------------------
(* Request inputs                                                          *)

LongName == [i \in 1..(MaxShedNameLength + 1) |-> "a"]

ValidNames == {<<"a">>, <<"b", "-", "1">>}

\* empty, too long, leading digit, trailing hyphen, a space, an upper-case letter
InvalidNames ==
    {<<>>, LongName, <<"1", "a">>, <<"a", "-">>, <<"b", "a", "d", " ", "n">>, <<"A">>}

Names == ValidNames \cup InvalidNames

\* The one environment the concurrent callers of ConcSpec contend for.
ConcNames == {<<"a">>}

Ops == {"create", "resolve", "start", "stop", "delete"}

-----------------------------------------------------------------------------
(* internal/api: error mapping                                             *)

Contains(errMsg, phrase) == \E i \in 1..Len(errMsg) : errMsg[i] = phrase

\* mapDockerError: the docker client returns plain fmt.Errorf errors, never a
\* *DockerError, so only the message checks decide.
mapDockerError(err) ==
    IF Contains(err, "not found") THEN [http |-> 404, code |-> ErrShedNotFound]
    ELSE IF Contains(err, "already exists") THEN [http |-> 409, code |-> ErrShedAlreadyExists]
    ELSE IF Contains(err, "already running") THEN [http |-> 409, code |-> ErrShedAlreadyRunning]
    ELSE IF Contains(err, "already stopped") \/ Contains(err, "not running")
         THEN [http |-> 409, code |-> ErrShedAlreadyStopped]
    ELSE [http |-> 500, code |-> ErrDockerError]

writeError(http, code) == [http |-> http, code |-> code, status |-> "none"]

writeJSON(http, status) == [http |-> http, code |-> "OK", status |-> status]

ErrorResponse(err) == writeError(mapDockerError(err).http, mapDockerError(err).code)

NoResponse == [http |-> 0, code |-> "none", status |-> "none"]

-----------------------------------------------------------------------------
(* The container runtime                                                   *)

\* The daemon's message for a failure of its own (I/O, cancelled request, ...).
DaemonError == <<"Error response from daemon">>

\* The daemon's message when the container name is taken.
NameConflict == <<"Conflict", "The container name is already in use">>

NoSuchContainer == <<"No such container">>

\* What ContainerStart answers for a container that is already running: the
\* request is a no-op without error, or the runtime reports the condition.
StartRunningOutcomes == {<<>>, <<"container already started">>, <<"already running">>}

\* Every runtime request either is served ("ok") or fails ("fail") with
\* DaemonError. VolumeRemove is called with force: served, it removes the
\* volume even if a container still mounts it (volumes.go: "Force removal
\* even if volume is in use"); a runtime that refuses is the "fail" outcome.
RuntimeOutcomes == {"ok", "fail"}

\* State flags of types.ContainerState for a runtime state; "unknown" is an
\* inspect answer without a state (nil).
InspectState(state) ==
    [Nil |-> state = "unknown",
     Running |-> state \in {"running", "paused", "restarting"},
     Paused |-> state = "paused",
     Restarting |-> state = "restarting"]

\* A status mapping for which every container that is not running is starting.
inspectStateToStatus_NoStopped(st) ==
    IF st.Running THEN StatusRunning ELSE StatusStarting

inspectStateToStatus(st) ==
    IF st.Nil THEN StatusError
    ELSE IF st.Running THEN StatusRunning
    ELSE IF st.Paused \/ st.Restarting THEN StatusStarting
    ELSE StatusStopped

HasContainer(name) == ContainerName(name) \in DOMAIN containers

ContainerOf(name) == containers[ContainerName(name)]

VolumeExists(shedName) == VolumeName(shedName) \in volumes

ContainerWithId(id) == {c \in DOMAIN containers : containers[c].id = id}

\* GetShed under a runtime that answers (rt = "ok") or fails (rt = "fail").
GetShed(name, rt) ==
    IF rt = "fail"
    THEN [err |-> <<"failed to inspect container">> \o DaemonError, status |-> "none"]
    ELSE IF ~HasContainer(name)
    THEN [err |-> <<"shed", "not found">>, status |-> "none"]
    ELSE IF ~ContainerOf(name).shed
    THEN [err |-> <<"shed", "not found">>, status |-> "none"]
    ELSE [err |-> <<>>, status |-> inspectStateToStatus(InspectState(ContainerOf(name).state))]

\* What resolve(name) answers in the current state.
Resolve(name) ==
    IF GetShed(name, "ok").err = <<>> THEN GetShed(name, "ok").status ELSE "NotFound"

-----------------------------------------------------------------------------
(* Call bookkeeping                                                        *)

NoReq == [op |-> "none", name |-> <<>>, keep |-> FALSE]

NoLoc == [id |-> 0, err |-> <<>>]

NoContainer == [id |-> 0, state |-> "absent", shed |-> FALSE, by |-> "none"]

\* calls: the runtime requests issued; failed: those that answered an error;
\* faults: those that answered DaemonError; cont, vol: the pre-state.
NoHist ==
    [calls |-> {}, failed |-> {}, faults |-> {}, cont |-> NoContainer, vol |-> FALSE,
     raced |-> "none"]

\* The pre-state a call starts from.
Snapshot(name) ==
    [calls |-> {}, failed |-> {}, faults |-> {},
     cont |-> IF HasContainer(name) THEN ContainerOf(name) ELSE NoContainer,
     vol |-> VolumeExists(name), raced |-> "none"]

\* hist after the runtime request `call` that answered rterr (<<>>: no error).
Called(p, call, rterr) ==
    [hist EXCEPT ![p].calls = @ \cup {call},
                 ![p].failed = IF rterr # <<>> THEN @ \cup {call} ELSE @,
                 ![p].faults = IF rterr = DaemonError THEN @ \cup {call} ELSE @]

\* The runtime request `call` of caller p answered rterr.
Request(p, call, rterr) ==
    /\ hist' = Called(p, call, rterr)
    /\ faulted' = (faulted \/ rterr = DaemonError)

\* The answer of a request that fails only if the runtime does.
Answer(rt) == IF rt = "fail" THEN DaemonError ELSE <<>>

Goto(p, label) ==
    /\ pc' = [pc EXCEPT ![p] = label]
    /\ UNCHANGED res

Finish(p, response) ==
    /\ pc' = [pc EXCEPT ![p] = "done"]
    /\ res' = [res EXCEPT ![p] = response]

Begin(p, op, name, keep) ==
    /\ pc[p] = "idle"
    /\ req' = [req EXCEPT ![p] = [op |-> op, name |-> name, keep |-> keep]]
    /\ hist' = [hist EXCEPT ![p] = Snapshot(name)]
    /\ UNCHANGED faulted

\* The runtime's ContainerStart on the container named cname (or absent).
StartErrors(cname, rt) ==
    IF cname \notin DOMAIN containers THEN {NoSuchContainer}
    ELSE IF rt = "fail" THEN {DaemonError}
    ELSE IF containers[cname].state = "running" THEN StartRunningOutcomes
    ELSE {<<>>}

\* The container started by a call of operation op (by: who started it, a
\* history field).
Started(cname, op) == [containers EXCEPT ![cname].state = "running", ![cname].by = op]

\* "none", or the operation that had started the container this call's
\* ContainerStart found running.
Raced(p, cname) ==
    IF hist[p].raced = "none" /\ cname \in DOMAIN containers
       /\ containers[cname].state = "running"
    THEN containers[cname].by
    ELSE hist[p].raced

Stopped(cname) ==
    [containers EXCEPT ![cname].state = IF @ = "running" THEN "exited" ELSE @]

Removed(cname) == [c \in DOMAIN containers \ {cname} |-> containers[c]]

-----------------------------------------------------------------------------
(* create: handleCreateShed and CreateShed                                 *)

\* handleCreateShed up to the call of CreateShed, and CreateShed's own
\* validation (the same ValidateShedName on the same name).
BeginCreate(p, name) ==
    /\ Begin(p, "create", name, FALSE)
    /\ nextId <= MaxIds
    /\ IF name = <<>> \/ ValidateShedName(name) # <<>>
       THEN Finish(p, writeError(400, ErrInvalidShedName))
       ELSE Goto(p, "create_volume")
    /\ UNCHANGED <<containers, volumes, nextId, loc, scen, sessionVars, serviceVars>>

\* c.CreateVolume (VolumeCreate is idempotent: an existing volume is returned).
CreateVolumeStep(p) ==
    /\ pc[p] = "create_volume"
    /\ \E rt \in RuntimeOutcomes :
         /\ Request(p, "VolumeCreate", Answer(rt))
         /\ IF rt = "ok"
            THEN /\ volumes' = volumes \cup {VolumeName(req[p].name)}
                 /\ Goto(p, "create_container")
            ELSE /\ UNCHANGED volumes
                 /\ Finish(p, ErrorResponse(<<"failed to create volume", "failed to create volume">>
                                                \o DaemonError))
    /\ UNCHANGED <<containers, nextId, req, loc, scen, sessionVars, serviceVars>>

\* Where CreateShed goes when ContainerCreate fails: the volume clean-up.
AfterCreateFailed == "create_rollback_volume"

\* c.docker.ContainerCreate under the name ContainerName(req.Name).
ContainerCreateStep(p) ==
    /\ pc[p] = "create_container"
    /\ \E rt \in RuntimeOutcomes :
         LET cname == ContainerName(req[p].name)
             rterr == IF cname \in DOMAIN containers THEN NameConflict
                      ELSE IF rt = "fail" THEN DaemonError
                      ELSE <<>>
         IN  /\ Request(p, "ContainerCreate", rterr)
             /\ IF rterr = <<>>
                THEN /\ containers' = [c \in DOMAIN containers \cup {cname} |->
                                         IF c = cname
                                         THEN [id |-> nextId, state |-> "created", shed |-> TRUE,
                                               by |-> "none"]
                                         ELSE containers[c]]
                     /\ nextId' = nextId + 1
                     /\ loc' = [loc EXCEPT ![p].id = nextId]
                     /\ Goto(p, "create_start")
                ELSE /\ loc' = [loc EXCEPT ![p].err = <<"failed to create container">> \o rterr]
                     /\ Goto(p, AfterCreateFailed)
                     /\ UNCHANGED <<containers, nextId>>
    /\ UNCHANGED <<volumes, req, scen, sessionVars, serviceVars>>

\* The clean-up after a failed ContainerCreate: _ = c.DeleteVolume(...).
CreateRollbackVolume(p) ==
    /\ pc[p] = "create_rollback_volume"
    /\ \E rt \in RuntimeOutcomes :
         /\ Request(p, "VolumeRemove", Answer(rt))
         /\ volumes' = IF rt = "ok" THEN volumes \ {VolumeName(req[p].name)} ELSE volumes
    /\ Finish(p, ErrorResponse(loc[p].err))
    /\ UNCHANGED <<containers, nextId, req, loc, scen, sessionVars, serviceVars>>

\* A clean-up after ContainerStart that forgets the container.
AfterStartFailed_VolumeOnly == "start_rollback_volume"

\* Where CreateShed goes when ContainerStart fails: the container clean-up.
AfterStartFailed == "start_rollback_container"

\* c.docker.ContainerStart(resp.ID).
CreateStartStep(p) ==
    /\ pc[p] = "create_start"
    /\ \E rt \in RuntimeOutcomes :
         LET mine == ContainerWithId(loc[p].id)
             cname == CHOOSE c \in mine : TRUE
         IN  \E rterr \in (IF mine = {} THEN {NoSuchContainer} ELSE StartErrors(cname, rt)) :
               /\ hist' = [Called(p, "ContainerStart", rterr) EXCEPT
                              ![p].raced = IF mine = {} THEN @ ELSE Raced(p, cname)]
               /\ faulted' = (faulted \/ rterr = DaemonError)
               /\ IF rterr = <<>>
                  THEN /\ containers' = Started(cname, "create")
                       /\ UNCHANGED loc
                       /\ IF seed[p].repo
                          THEN Goto(p, "create_clone")
                          ELSE Finish(p, writeJSON(201, StatusRunning))
                  ELSE /\ loc' = [loc EXCEPT ![p].err = <<"failed to start container">> \o rterr]
                       /\ Goto(p, AfterStartFailed)
                       /\ UNCHANGED containers
    /\ UNCHANGED <<volumes, nextId, req, scen, sessionVars, serviceVars>>

\* How cloneRepo ends: git clone exits with 0 ("ok"), a runtime request of
\* the exec fails ("fail"), or git clone exits with another code ("exit").
CloneOutcomes == {"ok", "fail", "exit"}

\* The error cloneRepo returns.
cloneRepo(p, co) ==
    LET mine == ContainerWithId(loc[p].id)
    IN  IF mine = {} THEN <<"failed to create exec for git clone">> \o NoSuchContainer
        ELSE IF containers[CHOOSE c \in mine : TRUE].state # "running" \/ co = "fail"
        THEN <<"failed to create exec for git clone">> \o DaemonError
        ELSE IF co = "exit" THEN <<"git clone failed with exit code">>
        ELSE <<>>

\* A CreateShed that returns the clone's error.
AfterClone_Fatal(err) ==
    IF err # <<>> THEN ErrorResponse(<<"failed to clone repository">> \o err)
    ELSE writeJSON(201, StatusRunning)

\* What CreateShed returns after cloneRepo: the error is logged only.
AfterClone(err) == writeJSON(201, StatusRunning)

\* if req.Repo != "": c.cloneRepo(ctx, resp.ID, req.Repo), then the return.
CloneStep(p) ==
    /\ pc[p] = "create_clone"
    /\ \E co \in CloneOutcomes :
         /\ hist' = Called(p, "ContainerExec", cloneRepo(p, co))
         /\ faulted' = (faulted \/ co = "fail")
         /\ Finish(p, AfterClone(cloneRepo(p, co)))
    /\ UNCHANGED <<containers, volumes, nextId, req, loc, scen, sessionVars, serviceVars>>

\* The clean-up after a failed ContainerStart, first half:
\* _ = c.docker.ContainerRemove(resp.ID, Force).
StartRollbackContainer(p) ==
    /\ pc[p] = "start_rollback_container"
    /\ \E rt \in RuntimeOutcomes :
         LET mine == ContainerWithId(loc[p].id)
         IN  /\ Request(p, "ContainerRemove",
                        IF mine = {} THEN NoSuchContainer ELSE Answer(rt))
             /\ containers' = IF rt = "ok" /\ mine # {}
                              THEN Removed(CHOOSE c \in mine : TRUE)
                              ELSE containers
    /\ Goto(p, "start_rollback_volume")
    /\ UNCHANGED <<volumes, nextId, req, loc, scen, sessionVars, serviceVars>>

\* The clean-up after a failed ContainerStart, second half: _ = c.DeleteVolume(...).
StartRollbackVolume(p) ==
    /\ pc[p] = "start_rollback_volume"
    /\ \E rt \in RuntimeOutcomes :
         /\ Request(p, "VolumeRemove", Answer(rt))
         /\ volumes' = IF rt = "ok" THEN volumes \ {VolumeName(req[p].name)} ELSE volumes
    /\ Finish(p, ErrorResponse(loc[p].err))
    /\ UNCHANGED <<containers, nextId, req, loc, scen, sessionVars, serviceVars>>

-----------------------------------------------------------------------------
(* resolve: handleGetShed and GetShed                                      *)

BeginResolve(p, name) ==
    /\ Begin(p, "resolve", name, FALSE)
    /\ Goto(p, "resolve_inspect")
    /\ UNCHANGED <<containers, volumes, nextId, loc, scen, sessionVars, serviceVars>>

ResolveInspect(p) ==
    /\ pc[p] = "resolve_inspect"
    /\ \E rt \in RuntimeOutcomes :
         LET shed == GetShed(req[p].name, rt)
         IN  /\ Request(p, "ContainerInspect", Answer(rt))
             /\ Finish(p, IF shed.err # <<>> THEN ErrorResponse(shed.err)
                           ELSE writeJSON(200, shed.status))
    /\ UNCHANGED <<containers, volumes, nextId, req, loc, scen, sessionVars, serviceVars>>

-----------------------------------------------------------------------------
(* start: handleStartShed and StartShed                                    *)

BeginStart(p, name) ==
    /\ Begin(p, "start", name, FALSE)
    /\ Goto(p, "start_check")
    /\ UNCHANGED <<containers, volumes, nextId, loc, scen, sessionVars, serviceVars>>

\* StartShed's pre-check: GetShed, then the conflict on StatusRunning.
StartCheck(p) ==
    /\ pc[p] = "start_check"
    /\ \E rt \in RuntimeOutcomes :
         LET shed == GetShed(req[p].name, rt)
         IN  /\ Request(p, "ContainerInspect", Answer(rt))
             /\ IF shed.err # <<>>
                THEN Finish(p, ErrorResponse(shed.err))
                ELSE IF shed.status = StatusRunning
                THEN Finish(p, ErrorResponse(<<"shed", "is", "already running">>))
                ELSE Goto(p, "start_run")
    /\ UNCHANGED <<containers, volumes, nextId, req, loc, scen, sessionVars, serviceVars>>

\* c.docker.ContainerStart(containerName).
StartRun(p) ==
    /\ pc[p] = "start_run"
    /\ \E rt \in RuntimeOutcomes :
         LET cname == ContainerName(req[p].name)
         IN  \E rterr \in StartErrors(cname, rt) :
               /\ hist' = [Called(p, "ContainerStart", rterr) EXCEPT
                              ![p].raced = Raced(p, cname)]
               /\ faulted' = (faulted \/ rterr = DaemonError)
               /\ IF rterr = <<>>
                  THEN /\ containers' = Started(cname, "start")
                       /\ Goto(p, "start_refresh")
                  ELSE /\ UNCHANGED containers
                       /\ Finish(p, ErrorResponse(<<"failed to start container">> \o rterr))
    /\ UNCHANGED <<volumes, nextId, req, loc, scen, sessionVars, serviceVars>>

\* return c.GetShed(ctx, name)
StartRefresh(p) ==
    /\ pc[p] = "start_refresh"
    /\ \E rt \in RuntimeOutcomes :
         LET shed == GetShed(req[p].name, rt)
         IN  /\ Request(p, "ContainerInspect", Answer(rt))
             /\ Finish(p, IF shed.err # <<>> THEN ErrorResponse(shed.err)
                           ELSE writeJSON(200, shed.status))
    /\ UNCHANGED <<containers, volumes, nextId, req, loc, scen, sessionVars, serviceVars>>

-----------------------------------------------------------------------------
(* stop: handleStopShed and StopShed                                       *)

BeginStop(p, name) ==
    /\ Begin(p, "stop", name, FALSE)
    /\ Goto(p, "stop_check")
    /\ UNCHANGED <<containers, volumes, nextId, loc, scen, sessionVars, serviceVars>>

\* A StopShed without the conflict on StatusStopped.
StopCheck_NoConflict(p) ==
    /\ pc[p] = "stop_check"
    /\ \E rt \in RuntimeOutcomes :
         LET shed == GetShed(req[p].name, rt)
         IN  /\ Request(p, "ContainerInspect", Answer(rt))
             /\ IF shed.err # <<>>
                THEN Finish(p, ErrorResponse(shed.err))
                ELSE Goto(p, "stop_run")
    /\ UNCHANGED <<containers, volumes, nextId, req, loc, scen, sessionVars, serviceVars>>

\* StopShed's pre-check: GetShed, then the conflict on StatusStopped.
StopCheck(p) ==
    /\ pc[p] = "stop_check"
    /\ \E rt \in RuntimeOutcomes :
         LET shed == GetShed(req[p].name, rt)
         IN  /\ Request(p, "ContainerInspect", Answer(rt))
             /\ IF shed.err # <<>>
                THEN Finish(p, ErrorResponse(shed.err))
                ELSE IF shed.status = StatusStopped
                THEN Finish(p, ErrorResponse(<<"shed", "is", "already stopped">>))
                ELSE Goto(p, "stop_run")
    /\ UNCHANGED <<containers, volumes, nextId, req, loc, scen, sessionVars, serviceVars>>

\* c.docker.ContainerStop(containerName, timeout): a no-op on a container
\* that is not running.
StopRun(p) ==
    /\ pc[p] = "stop_run"
    /\ \E rt \in RuntimeOutcomes :
         LET cname == ContainerName(req[p].name)
             rterr == IF cname \notin DOMAIN containers THEN NoSuchContainer
                      ELSE IF rt = "fail" THEN DaemonError
                      ELSE <<>>
         IN  /\ Request(p, "ContainerStop", rterr)
             /\ IF rterr = <<>>
                THEN /\ containers' = Stopped(cname)
                     /\ Goto(p, "stop_refresh")
                ELSE /\ UNCHANGED containers
                     /\ Finish(p, ErrorResponse(<<"failed to stop container">> \o rterr))
    /\ UNCHANGED <<volumes, nextId, req, loc, scen, sessionVars, serviceVars>>

\* return c.GetShed(ctx, name)
StopRefresh(p) ==
    /\ pc[p] = "stop_refresh"
    /\ \E rt \in RuntimeOutcomes :
         LET shed == GetShed(req[p].name, rt)
         IN  /\ Request(p, "ContainerInspect", Answer(rt))
             /\ Finish(p, IF shed.err # <<>> THEN ErrorResponse(shed.err)
                           ELSE writeJSON(200, shed.status))
    /\ UNCHANGED <<containers, volumes, nextId, req, loc, scen, sessionVars, serviceVars>>

-----------------------------------------------------------------------------
(* delete: handleDeleteShed and DeleteShed                                 *)

BeginDelete(p, name, keepVolume) ==
    /\ Begin(p, "delete", name, keepVolume)
    /\ Goto(p, "delete_container")
    /\ UNCHANGED <<containers, volumes, nextId, loc, scen, sessionVars, serviceVars>>

\* A DeleteShed that ignores keepVolume.
AfterContainerRemoved_IgnoreKeep(keepVolume) == "delete_volume"

\* Where DeleteShed goes once the container is removed (or was not found).
AfterContainerRemoved(keepVolume) == IF keepVolume THEN "done" ELSE "delete_volume"

\* c.docker.ContainerRemove(containerName, Force): not-found is tolerated.
DeleteContainer(p) ==
    /\ pc[p] = "delete_container"
    /\ \E rt \in RuntimeOutcomes :
         LET cname == ContainerName(req[p].name)
             gone == cname \notin DOMAIN containers
         IN  /\ Request(p, "ContainerRemove",
                        IF gone THEN NoSuchContainer ELSE Answer(rt))
             /\ IF rt = "fail" /\ ~gone
                THEN /\ UNCHANGED containers
                     /\ Finish(p, ErrorResponse(<<"failed to remove container">> \o DaemonError))
                ELSE /\ containers' = IF gone THEN containers ELSE Removed(cname)
                     /\ IF AfterContainerRemoved(req[p].keep) = "done"
                        THEN Finish(p, writeJSON(204, "none"))
                        ELSE Goto(p, AfterContainerRemoved(req[p].keep))
    /\ UNCHANGED <<volumes, nextId, req, loc, scen, sessionVars, serviceVars>>

\* c.DeleteVolume: a failure is logged, not returned.
DeleteVolumeStep(p) ==
    /\ pc[p] = "delete_volume"
    /\ \E rt \in RuntimeOutcomes :
         /\ Request(p, "VolumeRemove", Answer(rt))
         /\ volumes' = IF rt = "ok" THEN volumes \ {VolumeName(req[p].name)} ELSE volumes
    /\ Finish(p, writeJSON(204, "none"))
    /\ UNCHANGED <<containers, nextId, req, loc, scen, sessionVars, serviceVars>>

-----------------------------------------------------------------------------
(* The caller takes the response                                           *)

Ok(p) == res[p].code = "OK"

FaultFree(p) == hist[p].faults = {}

NoScen == [name |-> <<>>, k |-> 0]

\* The monitor: how many steps of create, stop, start, delete(keepVolume =
\* false) have just been completed in a row, free of runtime failures, on one
\* valid name that had no container before the create.
ScenAfter(p) ==
    LET r == req[p] IN
    IF r.op = "resolve" THEN scen
    ELSE IF ~FaultFree(p) THEN NoScen
    ELSE IF r.op = "create" /\ r.name \in ValidNames /\ hist[p].cont = NoContainer
         THEN [name |-> r.name, k |-> 1]
    ELSE IF r.op = "stop" /\ scen.k = 1 /\ r.name = scen.name THEN [scen EXCEPT !.k = 2]
    ELSE IF r.op = "start" /\ scen.k = 2 /\ r.name = scen.name THEN [scen EXCEPT !.k = 3]
    ELSE IF r.op = "delete" /\ ~r.keep /\ scen.k = 3 /\ r.name = scen.name
         THEN [scen EXCEPT !.k = 4]
    ELSE NoScen

Taken(p) ==
    /\ pc[p] = "done"
    /\ pc' = [pc EXCEPT ![p] = "idle"]
    /\ req' = [req EXCEPT ![p] = NoReq]
    /\ loc' = [loc EXCEPT ![p] = NoLoc]
    /\ res' = [res EXCEPT ![p] = NoResponse]
    /\ hist' = [hist EXCEPT ![p] = NoHist]
    /\ UNCHANGED <<containers, volumes, nextId, faulted, sessionVars, serviceVars>>

\* The response is taken and the monitor advanced.
Return(p) ==
    /\ Taken(p)
    /\ scen' = ScenAfter(p)

\* The response is taken; concurrent calls have no scenario to monitor.
ConcReturn(p) ==
    /\ Taken(p)
    /\ UNCHANGED scen

-----------------------------------------------------------------------------
(* The PTY session's resize relay: execInContainer, handleWindowResize and *)
(* dockerSSHAdapter.ExecInContainer                                        *)

\* resizeChan := make(chan TerminalSize, 10)
ResizeChanCap == 10

\* The dimensions of the caller's i-th window-change event; the pty request
\* itself carries Window(0).
Window(i) == [Width |-> 80 + i, Height |-> 24 + i]

\* TerminalSize{Width: uint(win.Width), Height: uint(win.Height)}
TerminalSize(win) == [Width |-> win.Width, Height |-> win.Height]

\* InitialSize of the exec options: the window of the pty request.
InitialSize == TerminalSize(Window(0))

NoSize == [Width |-> 0, Height |-> 0]

\* The caller resizes its window: the SSH layer hands the event to winCh.
WindowChange ==
    /\ sent < MaxBurst
    /\ Len(winCh) < WinChCap
    /\ ~ctxDone
    /\ sent' = sent + 1
    /\ winCh' = Append(winCh, Window(sent + 1))
    /\ UNCHANGED <<relay, resizeChan, exec, loop, ptySize, ctxDone, resizeFailed>>
    /\ UNCHANGED <<lifecycleVars, serviceVars, streamVars>>

\* handleWindowResize, outer select: case win, ok := <-winCh.
handleWindowResizeRecv ==
    /\ relay.pc = "select"
    /\ winCh # <<>>
    /\ relay' = [pc |-> "send", win |-> Head(winCh)]
    /\ winCh' = Tail(winCh)
    /\ UNCHANGED <<sent, resizeChan, exec, loop, ptySize, ctxDone, resizeFailed>>
    /\ UNCHANGED <<lifecycleVars, serviceVars, streamVars>>

\* handleWindowResize, inner select: the non-blocking send to resizeChan. A
\* full queue skips the event; a send on the closed channel panics.
handleWindowResizeSend ==
    /\ relay.pc = "send"
    /\ IF resizeChan.closed
       THEN /\ relay' = [relay EXCEPT !.pc = "panic"]
            /\ UNCHANGED resizeChan
       ELSE /\ relay' = [pc |-> "select", win |-> NoSize]
            /\ resizeChan' =
                 IF Len(resizeChan.buf) < ResizeChanCap
                 THEN [resizeChan EXCEPT !.buf = Append(@, TerminalSize(relay.win))]
                 ELSE resizeChan
    /\ UNCHANGED <<winCh, sent, exec, loop, ptySize, ctxDone, resizeFailed>>
    /\ UNCHANGED <<lifecycleVars, serviceVars, streamVars>>

\* handleWindowResize, outer select: case <-ctx.Done().
handleWindowResizeDone ==
    /\ relay.pc = "select"
    /\ ctxDone
    /\ relay' = [pc |-> "returned", win |-> NoSize]
    /\ UNCHANGED <<winCh, sent, resizeChan, exec, loop, ptySize, ctxDone, resizeFailed>>
    /\ UNCHANGED <<lifecycleVars, serviceVars, streamVars>>

\* execInContainer returns what ExecInContainer returned: defer
\* close(resizeChan).
ExecReturned(err) ==
    /\ exec' = "returned"
    /\ execErr' = err
    /\ resizeChan' = [resizeChan EXCEPT !.closed = TRUE]

NoExit == [exited |-> FALSE, code |-> 0]

Exit(code) == [exited |-> TRUE, code |-> code]

\* dockerClient.ContainerExecCreate, with its early return.
ContainerExecCreate ==
    /\ exec = "create"
    /\ \E rt \in RuntimeOutcomes :
         IF rt = "ok" THEN exec' = "attach" /\ UNCHANGED <<resizeChan, execErr>>
         ELSE ExecReturned("failed to create exec")
    /\ UNCHANGED <<winCh, sent, relay, loop, ptySize, ctxDone, resizeFailed>>
    /\ UNCHANGED <<lifecycleVars, serviceVars, stdinCopy, stdoutCopy, remote, terminal>>

\* dockerClient.ContainerExecAttach, with its early return.
ContainerExecAttach ==
    /\ exec = "attach"
    /\ \E rt \in RuntimeOutcomes :
         IF rt = "ok" THEN exec' = "go_resize" /\ UNCHANGED <<resizeChan, execErr>>
         ELSE ExecReturned("failed to attach to exec")
    /\ UNCHANGED <<winCh, sent, relay, loop, ptySize, ctxDone, resizeFailed>>
    /\ UNCHANGED <<lifecycleVars, serviceVars, stdinCopy, stdoutCopy, remote, terminal>>

\* go func() { for size := range opts.ResizeChan { ... } }()
GoResizeLoop ==
    /\ exec = "go_resize"
    /\ exec' = "initial_size"
    /\ loop' = [pc |-> "range", size |-> NoSize]
    /\ UNCHANGED <<winCh, sent, relay, resizeChan, ptySize, ctxDone, resizeFailed>>
    /\ UNCHANGED <<lifecycleVars, serviceVars, streamVars>>

\* _ = dockerClient.ContainerExecResize(ctx, execResp.ID, ...): the error is
\* discarded.
ContainerExecResize(size, rt) ==
    /\ ptySize' = IF rt = "ok" THEN size ELSE ptySize
    /\ resizeFailed' = (resizeFailed \/ rt = "fail")

\* The resize loop receives the next queued size, or ends with the channel.
ResizeLoopRange ==
    /\ loop.pc = "range"
    /\ IF resizeChan.buf # <<>>
       THEN /\ loop' = [pc |-> "resize", size |-> Head(resizeChan.buf)]
            /\ resizeChan' = [resizeChan EXCEPT !.buf = Tail(@)]
       ELSE /\ resizeChan.closed
            /\ loop' = [pc |-> "returned", size |-> NoSize]
            /\ UNCHANGED resizeChan
    /\ UNCHANGED <<winCh, sent, relay, exec, ptySize, ctxDone, resizeFailed>>
    /\ UNCHANGED <<lifecycleVars, serviceVars, streamVars>>

\* The resize loop applies the size it received.
ResizeLoopResize ==
    /\ loop.pc = "resize"
    /\ \E rt \in RuntimeOutcomes : ContainerExecResize(loop.size, rt)
    /\ loop' = [pc |-> "range", size |-> NoSize]
    /\ UNCHANGED <<winCh, sent, relay, resizeChan, exec, ctxDone>>
    /\ UNCHANGED <<lifecycleVars, serviceVars, streamVars>>

\* Set initial size, after the resize loop has been started.
SetInitialSize ==
    /\ exec = "initial_size"
    /\ \E rt \in RuntimeOutcomes : ContainerExecResize(InitialSize, rt)
    /\ exec' = "go_copy"
    /\ UNCHANGED <<winCh, sent, relay, resizeChan, loop, ctxDone>>
    /\ UNCHANGED <<lifecycleVars, serviceVars, streamVars>>

\* The two copy goroutines are started: caller input to the remote (fire and
\* forget), remote output to the caller (closes done when it ends).
GoCopyStreams ==
    /\ exec = "go_copy"
    /\ exec' = "wait"
    /\ stdinCopy' = "copying"
    /\ stdoutCopy' = "copying"
    /\ UNCHANGED <<winCh, sent, relay, resizeChan, loop, ptySize, ctxDone, resizeFailed>>
    /\ UNCHANGED <<lifecycleVars, serviceVars, remote, execErr, terminal>>

\* The remote process exits with some exit code.
RemoteExits ==
    /\ exec \in {"go_resize", "initial_size", "go_copy", "wait"}
    /\ ~remote.exited
    /\ \E code \in ExitCodes : remote' = Exit(code)
    /\ UNCHANGED <<winCh, sent, relay, resizeChan, exec, loop, ptySize, ctxDone, resizeFailed>>
    /\ UNCHANGED <<lifecycleVars, serviceVars, stdinCopy, stdoutCopy, execErr, terminal>>

\* io.Copy(attachResp.Conn, opts.Stdin) returns: the caller's input has ended.
StdinCopyEnds ==
    /\ stdinCopy = "copying"
    /\ stdinCopy' = "done"
    /\ UNCHANGED <<winCh, sent, relay, resizeChan, exec, loop, ptySize, ctxDone, resizeFailed>>
    /\ UNCHANGED <<lifecycleVars, serviceVars, stdoutCopy, remote, execErr, terminal>>

\* io.Copy(opts.Stdout, attachResp.Reader) returns and done is closed: the
\* remote output stream has ended with the remote process, or the remote has
\* written output that can no longer be written to the closed session.
StdoutCopyEnds ==
    /\ stdoutCopy = "copying"
    /\ remote.exited \/ ctxDone
    /\ stdoutCopy' = "done"
    /\ UNCHANGED <<winCh, sent, relay, resizeChan, exec, loop, ptySize, ctxDone, resizeFailed>>
    /\ UNCHANGED <<lifecycleVars, serviceVars, stdinCopy, remote, execErr, terminal>>

\* An ExecInContainer that waits for both copies.
ExecDone_BothCopies ==
    /\ exec = "wait"
    /\ stdoutCopy = "done"
    /\ stdinCopy = "done"
    /\ exec' = "inspect"
    /\ UNCHANGED <<winCh, sent, relay, resizeChan, loop, ptySize, ctxDone, resizeFailed>>
    /\ UNCHANGED <<lifecycleVars, serviceVars, streamVars>>

\* <-done: ExecInContainer waits for the output copy only.
ExecDone ==
    /\ exec = "wait"
    /\ stdoutCopy = "done"
    /\ exec' = "inspect"
    /\ UNCHANGED <<winCh, sent, relay, resizeChan, loop, ptySize, ctxDone, resizeFailed>>
    /\ UNCHANGED <<lifecycleVars, serviceVars, streamVars>>

\* ExecInContainer's result for the inspected exit code.
ExitError(code) == IF code # 0 THEN "command exited with code" ELSE "nil"

\* dockerClient.ContainerExecInspect and the return of ExecInContainer. An
\* exec that is still running is inspected with exit code 0.
ContainerExecInspect ==
    /\ exec = "inspect"
    /\ \E rt \in RuntimeOutcomes :
         IF rt = "fail" THEN ExecReturned("failed to inspect exec")
         ELSE ExecReturned(ExitError(remote.code))
    /\ UNCHANGED <<winCh, sent, relay, loop, ptySize, ctxDone, resizeFailed>>
    /\ UNCHANGED <<lifecycleVars, serviceVars, stdinCopy, stdoutCopy, remote, terminal>>

\* handleSession after execInContainer: sess.Exit(1) on an error, else
\* sess.Exit(0).
SessionExit ==
    /\ exec = "returned"
    /\ ~terminal.exited
    /\ terminal' = Exit(IF execErr # "nil" THEN 1 ELSE 0)
    /\ UNCHANGED <<winCh, sent, relay, resizeChan, exec, loop, ptySize, ctxDone, resizeFailed>>
    /\ UNCHANGED <<lifecycleVars, serviceVars, stdinCopy, stdoutCopy, remote, execErr>>

\* The caller disconnects: the session's context is cancelled.
CallerDisconnect ==
    /\ ~ctxDone
    /\ ~terminal.exited
    /\ ctxDone' = TRUE
    /\ UNCHANGED <<winCh, sent, relay, resizeChan, exec, loop, ptySize, resizeFailed>>
    /\ UNCHANGED <<lifecycleVars, serviceVars, streamVars>>

\* The session handler has returned: the session's context is cancelled.
SessionClosed ==
    /\ terminal.exited
    /\ ~ctxDone
    /\ ctxDone' = TRUE
    /\ UNCHANGED <<winCh, sent, relay, resizeChan, exec, loop, ptySize, resizeFailed>>
    /\ UNCHANGED <<lifecycleVars, serviceVars, streamVars>>

-----------------------------------------------------------------------------
(* The connection handler: handleSession and waitForReady                  *)

reservedAPIUser == <<"_", "a", "p", "i">>

\* containerReadyTimeout and containerReadyPollInterval, in milliseconds.
containerReadyTimeout == 10000

containerReadyPollInterval == 250

\* The user names of the connections.
Users == {reservedAPIUser, <<>>, <<"a">>, <<"b">>}

\* The states the runtime can report for a container.
ContainerStates == {"created", "running", "paused", "restarting", "exited", "dead", "unknown"}

\* What is not the connection handler's own: the API callers' state and the
\* bridge of the session.
apiVars == <<volumes, nextId, pc, req, loc, res, hist, faulted, scen>>

bridgeVars ==
    <<winCh, sent, resizeChan, loop, ptySize, resizeFailed, stdinCopy, stdoutCopy, remote,
      execErr>>

NoConn(user) == [pc |-> "begin", user |-> user, seen |-> "none", status |-> "none",
                 err |-> "none"]

\* fmt.Fprintf(sess.Stderr(), ...); sess.Exit(1); return
Reject(err) ==
    /\ conn' = [conn EXCEPT !.pc = "returned", !.err = err]
    /\ terminal' = Exit(1)

\* Everything else that acts on the runtime (API callers, other connections,
\* the container's own process): the container of environment "a" appears,
\* changes its state or is removed.
RuntimeEvent ==
    /\ \/ \E st \in ContainerStates :
            containers' = (ContainerName(<<"a">>) :>
                             [id |-> 1, state |-> st, shed |-> TRUE, by |-> "other"])
       \/ containers' = Removed(ContainerName(<<"a">>))
    /\ containers' # containers
    /\ UNCHANGED <<apiVars, bridgeVars, muxVars, parseVars, extraVars, exec, relay, ctxDone, terminal, connVars>>

\* handleSession without the two checks before the lookup.
handleSessionBegin_NoReserved ==
    /\ conn.pc = "begin"
    /\ conn' = [conn EXCEPT !.pc = "lookup"]
    /\ UNCHANGED <<containers, apiVars, bridgeVars, muxVars, parseVars, extraVars, exec, relay, ctxDone, terminal, elapsed,
                   connCalls>>

\* handleSession: the reserved user name and the empty shed name.
handleSessionBegin ==
    /\ conn.pc = "begin"
    /\ IF conn.user = reservedAPIUser THEN Reject("reserved")
       ELSE IF conn.user = <<>> THEN Reject("invalid username")
       ELSE conn' = [conn EXCEPT !.pc = "lookup"] /\ UNCHANGED terminal
    /\ UNCHANGED <<containers, apiVars, bridgeVars, muxVars, parseVars, extraVars, exec, relay, ctxDone, elapsed, connCalls>>

\* handleSession: s.docker.GetShed, then the branch on StatusStopped.
LookUpShed ==
    /\ conn.pc = "lookup"
    /\ connCalls' = connCalls \cup {"GetShed"}
    /\ \E rt \in RuntimeOutcomes :
         LET shed == GetShed(conn.user, rt)
         IN  IF shed.err # <<>> THEN Reject("not found")
             ELSE /\ conn' = [conn EXCEPT !.seen = shed.status, !.status = shed.status,
                                          !.pc = IF shed.status = StatusStopped
                                                 THEN "start_check" ELSE "verify"]
                  /\ UNCHANGED terminal
    /\ UNCHANGED <<containers, apiVars, bridgeVars, muxVars, parseVars, extraVars, exec, relay, ctxDone, elapsed>>

\* s.docker.StartShed, pre-check: GetShed and the conflict on StatusRunning.
AutoStartCheck ==
    /\ conn.pc = "start_check"
    /\ connCalls' = connCalls \cup {"StartShed"}
    /\ \E rt \in RuntimeOutcomes :
         LET shed == GetShed(conn.user, rt)
         IN  IF shed.err # <<>> THEN Reject("failed to start shed")
             ELSE IF shed.status = StatusRunning
             THEN Reject("failed to start shed: already running")
             ELSE conn' = [conn EXCEPT !.pc = "start_run"] /\ UNCHANGED terminal
    /\ UNCHANGED <<containers, apiVars, bridgeVars, muxVars, parseVars, extraVars, exec, relay, ctxDone, elapsed>>

\* s.docker.StartShed: ContainerStart.
AutoStartRun ==
    /\ conn.pc = "start_run"
    /\ \E rt \in RuntimeOutcomes :
         LET cname == ContainerName(conn.user)
         IN  \E rterr \in StartErrors(cname, rt) :
               IF rterr = <<>>
               THEN /\ containers' = Started(cname, "connect")
                    /\ conn' = [conn EXCEPT !.pc = "start_refresh"]
                    /\ UNCHANGED terminal
               ELSE /\ Reject("failed to start shed")
                    /\ UNCHANGED containers
    /\ UNCHANGED <<apiVars, bridgeVars, muxVars, parseVars, extraVars, exec, relay, ctxDone, elapsed, connCalls>>

\* s.docker.StartShed: return c.GetShed; then waitForReady begins.
AutoStartRefresh ==
    /\ conn.pc = "start_refresh"
    /\ \E rt \in RuntimeOutcomes :
         IF GetShed(conn.user, rt).err # <<>>
         THEN Reject("failed to start shed") /\ UNCHANGED <<elapsed, connCalls>>
         ELSE /\ conn' = [conn EXCEPT !.pc = "wait_ready"]
              /\ elapsed' = 0
              /\ connCalls' = connCalls \cup {"waitForReady"}
              /\ UNCHANGED terminal
    /\ UNCHANGED <<containers, apiVars, bridgeVars, muxVars, parseVars, extraVars, exec, relay, ctxDone>>

\* A deadline that never passes.
AfterDeadline_Never(t) == FALSE

\* time.Now().After(deadline), for a tick received after t poll intervals.
AfterDeadline(t) == t * containerReadyPollInterval >= containerReadyTimeout

\* waitForReady returns err to handleSession.
WaitReturns(err) ==
    IF err = "nil"
    THEN conn' = [conn EXCEPT !.pc = "refresh", !.err = "nil"] /\ UNCHANGED terminal
    ELSE Reject(err)

\* waitForReady, case <-ticker.C: the deadline, then one poll of GetShed. A
\* tick is received some poll intervals after the last one.
waitForReadyTick ==
    /\ conn.pc = "wait_ready"
    /\ \E gap \in 1..MaxTickGap :
         /\ elapsed' = elapsed + gap
         /\ IF AfterDeadline(elapsed + gap)
            THEN WaitReturns("timeout waiting for shed to be ready")
            ELSE \E rt \in RuntimeOutcomes :
                   LET shed == GetShed(conn.user, rt)
                   IN  IF shed.err # <<>>
                       THEN UNCHANGED <<conn, terminal>>
                       ELSE IF shed.status = StatusRunning
                       THEN /\ conn' = [conn EXCEPT !.pc = "refresh", !.err = "nil",
                                                    !.status = shed.status]
                            /\ UNCHANGED terminal
                       ELSE IF shed.status = StatusError
                       THEN /\ conn' = [conn EXCEPT !.pc = "returned",
                                           !.err = "shed entered error state",
                                           !.status = shed.status]
                            /\ terminal' = Exit(1)
                       ELSE /\ conn' = [conn EXCEPT !.status = shed.status]
                            /\ UNCHANGED terminal
    /\ UNCHANGED <<containers, apiVars, bridgeVars, muxVars, parseVars, extraVars, exec, relay, ctxDone, connCalls>>

\* waitForReady, case <-ctx.Done(): return ctx.Err().
waitForReadyDone ==
    /\ conn.pc = "wait_ready"
    /\ ctxDone
    /\ WaitReturns("context canceled")
    /\ UNCHANGED <<containers, apiVars, bridgeVars, muxVars, parseVars, extraVars, exec, relay, ctxDone, elapsed, connCalls>>

\* handleSession: refresh shed info after starting.
RefreshShed ==
    /\ conn.pc = "refresh"
    /\ \E rt \in RuntimeOutcomes :
         LET shed == GetShed(conn.user, rt)
         IN  IF shed.err # <<>> THEN Reject("failed to get shed after start")
             ELSE /\ conn' = [conn EXCEPT !.status = shed.status, !.pc = "verify"]
                  /\ UNCHANGED terminal
    /\ UNCHANGED <<containers, apiVars, bridgeVars, muxVars, parseVars, extraVars, exec, relay, ctxDone, elapsed, connCalls>>

\* handleSession: verify the shed is running, then execInContainer, which
\* starts the resize relay and calls ExecInContainer.
VerifyRunning ==
    /\ conn.pc = "verify"
    /\ IF conn.status # StatusRunning
       THEN Reject("not running") /\ UNCHANGED <<exec, relay, connCalls>>
       ELSE /\ conn' = [conn EXCEPT !.pc = "exec"]
            /\ connCalls' = connCalls \cup {"ExecInContainer"}
            /\ exec' = "create"
            /\ relay' = [pc |-> "select", win |-> NoSize]
            /\ UNCHANGED terminal
    /\ UNCHANGED <<containers, apiVars, bridgeVars, muxVars, parseVars, extraVars, ctxDone, elapsed>>

-----------------------------------------------------------------------------
(* The listing parser: parseTmuxSessions                                   *)

\* unicode.IsSpace, for the characters of the model.
Space == {" ", "\t", "\n", "\r"}

RECURSIVE TrimLeft(_)
TrimLeft(str) ==
    IF str # <<>> /\ Head(str) \in Space THEN TrimLeft(Tail(str)) ELSE str

RECURSIVE TrimRight(_)
TrimRight(str) ==
    IF str # <<>> /\ str[Len(str)] \in Space
    THEN TrimRight(SubSeq(str, 1, Len(str) - 1))
    ELSE str

\* strings.TrimSpace
TrimSpace(str) == TrimRight(TrimLeft(str))

\* strings.Split(str, sep) for a one-character separator: one part more than
\* there are separators, and one empty part for the empty string.
RECURSIVE Split(_, _)
Split(str, sep) ==
    IF \A i \in 1..Len(str) : str[i] # sep
    THEN <<str>>
    ELSE LET i == CHOOSE k \in 1..Len(str) :
                     str[k] = sep /\ \A j \in 1..(k - 1) : str[j] # sep
         IN  <<SubSeq(str, 1, i - 1)>> \o Split(SubSeq(str, i + 1, Len(str)), sep)

DigitValue(c) ==
    CASE c = "0" -> 0 [] c = "1" -> 1 [] c = "2" -> 2 [] c = "3" -> 3 [] c = "4" -> 4
      [] c = "5" -> 5 [] c = "6" -> 6 [] c = "7" -> 7 [] c = "8" -> 8 [] c = "9" -> 9

RECURSIVE Decimal(_)
Decimal(digits) ==
    IF digits = <<>> THEN 0
    ELSE 10 * Decimal(SubSeq(digits, 1, Len(digits) - 1)) + DigitValue(digits[Len(digits)])

\* strconv.ParseInt(str, 10, 64) and strconv.Atoi(str): an optional sign and
\* at least one decimal digit (the strings of the model are far too short to
\* overflow 64 bits).
ParseInt(str) ==
    LET signed == str # <<>> /\ Head(str) \in {"+", "-"}
        digits == IF signed THEN Tail(str) ELSE str
    IN  IF digits = <<>> \/ \E i \in 1..Len(digits) : digits[i] \notin Digit
        THEN [ok |-> FALSE, val |-> 0]
        ELSE [ok |-> TRUE,
              val |-> IF signed /\ Head(str) = "-" THEN 0 - Decimal(digits)
                      ELSE Decimal(digits)]

\* time.Time{} and time.Unix(ts, 0)
ZeroTime == [zero |-> TRUE, unix |-> 0]

Unix(ts) == [zero |-> FALSE, unix |-> ts]

\* A line with exactly four parts only.
AcceptParts_ExactlyFour(parts) == Len(parts) = 4

\* if len(parts) < 4 { continue }
AcceptParts(parts) == ~(Len(parts) < 4)

\* The config.Session built from the parts of a line.
SessionOf(parts, name) ==
    [Name |-> parts[1],
     ShedName |-> name,
     CreatedAt |-> IF ParseInt(parts[2]).ok THEN Unix(ParseInt(parts[2]).val) ELSE ZeroTime,
     Attached |-> parts[3] = <<"1">>,
     WindowCount |-> IF ParseInt(parts[4]).ok THEN ParseInt(parts[4]).val ELSE 0]

\* The loop of parseTmuxSessions over the lines.
RECURSIVE ParseLines(_, _)
ParseLines(lines, name) ==
    IF lines = <<>> THEN <<>>
    ELSE LET line == TrimSpace(Head(lines))
             parts == Split(line, ":")
             rest == ParseLines(Tail(lines), name)
         IN  IF line = <<>> THEN rest
             ELSE IF ~AcceptParts(parts) THEN rest
             ELSE <<SessionOf(parts, name)>> \o rest

\* parseTmuxSessions(output, shedName): the sessions; the error is always nil.
parseTmuxSessions(out, name) ==
    [sessions |-> ParseLines(Split(TrimSpace(out), "\n"), name), err |-> "nil"]

-----------------------------------------------------------------------------
(* The multiplexer adapter: ListSessions, SessionExists, KillSession       *)

ErrTmuxNotAvailable == "tmux is not available in this container"

ErrSessionNotFound == "session not found"

\* The names of the tmux sessions, in the order tmux lists them.
SessionOrder == << <<"s">>, <<"t">> >>

SessionNames == {SessionOrder[i] : i \in DOMAIN SessionOrder}

\* The tmux of the container: its binary is absent, it cannot reach a server
\* ("broken", no session can be used), or it works ("ok") with its sessions.
TmuxStates ==
    {[state |-> st, sessions |-> {}] : st \in {"absent", "broken"}}
        \cup {[state |-> "ok", sessions |-> ss] : ss \in SUBSET SessionNames}

\* No call of the adapter is in progress. checked: the status the last
\* GetShed check saw; present, tmuxAt: what tmux held when the probe and the
\* last command ran; probe, code: the exit codes execCommand returned for
\* has-session and for the last command; execs: the commands issued.
NoMux ==
    [pc |-> "idle", op |-> "none", session |-> <<>>, checked |-> "none", present |-> "none",
     tmuxAt |-> "none", probe |-> <<>>, code |-> <<>>, out |-> <<>>, execs |-> <<>>,
     err |-> "none", exists |-> FALSE, list |-> <<>>]

\* The line tmux prints for a session under the format
\* #{session_name}:#{session_created}:#{session_attached}:#{session_windows}.
SessionLine(name) == name \o <<":", "7", ":", "0", ":", "1">>

RECURSIVE ListingOf(_, _)
ListingOf(ss, i) ==
    IF i > Len(SessionOrder) THEN <<>>
    ELSE IF SessionOrder[i] \in ss
    THEN SessionLine(SessionOrder[i]) \o <<"\n">> \o ListingOf(ss, i + 1)
    ELSE ListingOf(ss, i + 1)

\* What a tmux command does in the container: its exit code, its output and
\* the sessions it leaves.
TmuxRun(cmd, session) ==
    IF tmux.state = "absent"
    THEN [code |-> 127, out |-> <<"exec:", "tmux", "executable file", "not found", "in $PATH">>,
          sessions |-> tmux.sessions]
    ELSE IF tmux.state = "broken"
    THEN [code |-> 1, out |-> <<"error connecting to", "/tmp/tmux-0/default">>,
          sessions |-> tmux.sessions]
    ELSE IF cmd = "list-sessions"
    THEN IF tmux.sessions = {}
         THEN [code |-> 1, out |-> <<"no server running", "on", "/tmp/tmux-0/default">>,
               sessions |-> tmux.sessions]
         ELSE [code |-> 0, out |-> ListingOf(tmux.sessions, 1), sessions |-> tmux.sessions]
    ELSE IF session \notin tmux.sessions
    THEN [code |-> 1, out |-> <<"can't find session">>, sessions |-> tmux.sessions]
    ELSE IF cmd = "kill-session"
    THEN [code |-> 0, out |-> <<>>, sessions |-> tmux.sessions \ {session}]
    ELSE [code |-> 0, out |-> <<>>, sessions |-> tmux.sessions]

\* How the runtime serves the three requests of execCommand: all of them,
\* none (ContainerExecCreate or ContainerExecAttach fails), or all but the
\* ContainerExecInspect after the command has run.
ExecOutcomes == {"ok", "fail", "inspect_fail"}

\* execCommand: output, exit code and error; the runtime refuses an exec in a
\* container that is not running.
execCommand(cname, cmd, session, eo) ==
    IF eo = "fail" \/ cname \notin DOMAIN containers
    THEN [out |-> <<>>, code |-> -1, err |-> "failed to create exec", sessions |-> tmux.sessions]
    ELSE IF containers[cname].state # "running"
    THEN [out |-> <<>>, code |-> -1, err |-> "failed to create exec", sessions |-> tmux.sessions]
    ELSE IF eo = "inspect_fail"
    THEN [out |-> TmuxRun(cmd, session).out, code |-> -1, err |-> "failed to inspect exec",
          sessions |-> TmuxRun(cmd, session).sessions]
    ELSE [out |-> TmuxRun(cmd, session).out, code |-> TmuxRun(cmd, session).code,
          err |-> "nil", sessions |-> TmuxRun(cmd, session).sessions]

\* Other clients of the container's tmux create and kill sessions, and the
\* container's tmux breaks, is repaired, or is a different image's.
TmuxEvent ==
    /\ tmux' \in TmuxStates
    /\ tmux' # tmux
    /\ UNCHANGED <<lifecycleVars, sessionVars, connVars, mux, parseVars, extraVars>>

\* A caller of the adapter calls ListSessions, SessionExists or KillSession
\* for environment "a".
MuxCall ==
    /\ mux.pc = "idle"
    /\ \E op \in {"list", "exists", "kill"}, session \in SessionNames :
         mux' = [NoMux EXCEPT !.pc = op \o "_check", !.op = op,
                              !.session = IF op = "list" THEN <<>> ELSE session]
    /\ UNCHANGED <<lifecycleVars, sessionVars, connVars, tmux, parseVars, extraVars>>

\* The call has returned to its caller.
MuxReturn ==
    /\ mux.pc = "returned"
    /\ mux' = NoMux
    /\ UNCHANGED <<lifecycleVars, sessionVars, connVars, tmux, parseVars, extraVars>>

\* A check that lets every existing environment pass.
CheckPasses_Existing(shed) == shed.err = <<>>

\* shed, err := c.GetShed(...); err == nil and shed.Status == StatusRunning
CheckPasses(shed) == shed.err = <<>> /\ shed.status = StatusRunning

\* "First check if the container is running": the check all three operations
\* begin with, and where they go when it passes.
RunningCheck(at, next) ==
    /\ mux.pc = at
    /\ \E rt \in RuntimeOutcomes :
         LET shed == GetShed(<<"a">>, rt)
             seen == IF shed.err # <<>> THEN "NotFound" ELSE shed.status
         IN  IF CheckPasses(shed)
             THEN mux' = [mux EXCEPT !.pc = next, !.checked = seen]
             ELSE mux' = [mux EXCEPT !.pc = "returned", !.checked = seen,
                                     !.err = IF shed.err # <<>> THEN "shed not found"
                                             ELSE "shed is not running"]
    /\ UNCHANGED <<lifecycleVars, sessionVars, connVars, tmux, parseVars, extraVars>>

ListSessionsCheck == RunningCheck("list_check", "list_exec")

SessionExistsCheck == RunningCheck("exists_check", "exists_exec")

KillSessionCheck == RunningCheck("kill_check", "exists_check")

\* ListSessions treats every non-zero exit as an error.
ListResult_AllErrors(code, out) ==
    IF code # 0
    THEN [err |-> "tmux list-sessions failed", list |-> <<>>]
    ELSE [err |-> "nil", list |-> parseTmuxSessions(out, <<"a">>).sessions]

\* ListSessions: the result for the exit code and the output of the listing.
ListResult(code, out) ==
    IF code # 0
    THEN IF Contains(out, "no server running") \/ Contains(out, "no sessions")
         THEN [err |-> "nil", list |-> <<>>]
         ELSE IF Contains(out, "not found") \/ Contains(out, "command not found")
         THEN [err |-> ErrTmuxNotAvailable, list |-> <<>>]
         ELSE [err |-> "tmux list-sessions failed", list |-> <<>>]
    ELSE [err |-> "nil", list |-> parseTmuxSessions(out, <<"a">>).sessions]

\* ListSessions: tmux list-sessions and the classification of its result.
ListSessionsExec ==
    /\ mux.pc = "list_exec"
    /\ \E eo \in ExecOutcomes :
         LET r == execCommand(ContainerName(<<"a">>), "list-sessions", <<>>, eo)
         IN  /\ tmux' = [tmux EXCEPT !.sessions = r.sessions]
             /\ mux' = [mux EXCEPT
                          !.pc = "returned",
                          !.execs = @ \o <<"list-sessions">>,
                          !.tmuxAt = tmux.state,
                          !.code = <<r.code>>,
                          !.out = r.out,
                          !.err = IF r.err # "nil" THEN "failed to list sessions"
                                  ELSE ListResult(r.code, r.out).err,
                          !.list = IF r.err # "nil" THEN <<>>
                                   ELSE ListResult(r.code, r.out).list]
    /\ UNCHANGED <<lifecycleVars, sessionVars, connVars, parseVars, extraVars>>

\* A probe that finds every session.
Exists_Always(exitCode) == TRUE

\* return exitCode == 0, nil
Exists(exitCode) == exitCode = 0

\* SessionExists: tmux has-session; KillSession goes on with its answer.
SessionExistsExec ==
    /\ mux.pc = "exists_exec"
    /\ \E eo \in ExecOutcomes :
         LET r == execCommand(ContainerName(<<"a">>), "has-session", mux.session, eo)
             probed == [mux EXCEPT
                          !.execs = @ \o <<"has-session">>,
                          !.probe = <<r.code>>,
                          !.present = IF tmux.state = "ok" /\ mux.session \in tmux.sessions
                                      THEN "yes" ELSE "no"]
         IN  /\ tmux' = [tmux EXCEPT !.sessions = r.sessions]
             /\ IF r.err # "nil"
                THEN mux' = [probed EXCEPT !.pc = "returned", !.err = "failed to check session"]
                ELSE IF mux.op = "exists"
                THEN mux' = [probed EXCEPT !.pc = "returned", !.err = "nil",
                                           !.exists = Exists(r.code)]
                ELSE IF ~Exists(r.code)
                THEN mux' = [probed EXCEPT !.pc = "returned", !.err = ErrSessionNotFound]
                ELSE mux' = [probed EXCEPT !.pc = "kill_exec", !.exists = TRUE]
    /\ UNCHANGED <<lifecycleVars, sessionVars, connVars, parseVars, extraVars>>

\* KillSession: tmux kill-session and the check of its exit code.
KillSessionExec ==
    /\ mux.pc = "kill_exec"
    /\ \E eo \in ExecOutcomes :
         LET r == execCommand(ContainerName(<<"a">>), "kill-session", mux.session, eo)
         IN  /\ tmux' = [tmux EXCEPT !.sessions = r.sessions]
             /\ mux' = [mux EXCEPT
                          !.pc = "returned",
                          !.execs = @ \o <<"kill-session">>,
                          !.tmuxAt = tmux.state,
                          !.code = <<r.code>>,
                          !.out = r.out,
                          !.err = IF r.err # "nil" THEN "failed to kill session"
                                  ELSE IF r.code # 0 THEN "tmux kill-session failed"
                                  ELSE "nil"]
    /\ UNCHANGED <<lifecycleVars, sessionVars, connVars, parseVars, extraVars>>

-----------------------------------------------------------------------------
(* Specifications                                                          *)

\* No create request names a repository.
NoSeed == [repo |-> FALSE]

SeedIdle == seed = [p \in Procs |-> NoSeed]

\* No function is being applied.
FnIdle == arg = <<>> /\ val = <<>>

\* A client configuration without servers.
NoServers == [servers |-> {}, default |-> <<>>, err |-> "none"]

CfgIdle == clientCfg = NoServers

\* There is no second connection.
NoPeer == [conn |-> NoConn(<<>>), elapsed |-> 0, connCalls |-> {}, terminal |-> NoExit,
           exec |-> "none", relay |-> [pc |-> "none", win |-> NoSize], live |-> FALSE]

PeerIdle == peer = NoPeer

ExtraIdle == SeedIdle /\ FnIdle /\ CfgIdle /\ PeerIdle

Init ==
    /\ ExtraIdle
    /\ containers = [c \in {} |-> 0]
    /\ volumes = {}
    /\ nextId = 1
    /\ pc = [p \in Procs |-> "idle"]
    /\ req = [p \in Procs |-> NoReq]
    /\ loc = [p \in Procs |-> NoLoc]
    /\ res = [p \in Procs |-> NoResponse]
    /\ hist = [p \in Procs |-> NoHist]
    /\ faulted = FALSE
    /\ scen = NoScen
    /\ winCh = <<>>
    /\ sent = 0
    /\ relay = [pc |-> "select", win |-> NoSize]
    /\ resizeChan = [buf |-> <<>>, closed |-> FALSE]
    /\ exec = "create"
    /\ loop = [pc |-> "none", size |-> NoSize]
    /\ ptySize = NoSize
    /\ ctxDone = FALSE
    /\ resizeFailed = FALSE
    /\ stdinCopy = "none"
    /\ stdoutCopy = "none"
    /\ remote = NoExit
    /\ execErr = "none"
    /\ terminal = NoExit
    /\ conn = [NoConn(<<"a">>) EXCEPT !.pc = "exec", !.seen = StatusRunning,
                                     !.status = StatusRunning]
    /\ elapsed = 0
    /\ connCalls = {"GetShed", "ExecInContainer"}
    /\ tmux = [state |-> "ok", sessions |-> {}]
    /\ mux = NoMux
    /\ output = <<>>
    /\ queried = <<"a">>
    /\ sessions = [sessions |-> <<>>, err |-> "none"]

Calls(p, names, ids) ==
    \/ nextId <= ids /\ \E name \in names : BeginCreate(p, name)
    \/ CreateVolumeStep(p)
    \/ ContainerCreateStep(p)
    \/ CreateRollbackVolume(p)
    \/ CreateStartStep(p)
    \/ StartRollbackContainer(p)
    \/ StartRollbackVolume(p)
    \/ \E name \in names : BeginResolve(p, name)
    \/ ResolveInspect(p)
    \/ \E name \in names : BeginStart(p, name)
    \/ StartCheck(p)
    \/ StartRun(p)
    \/ StartRefresh(p)
    \/ \E name \in names : BeginStop(p, name)
    \/ StopCheck(p)
    \/ StopRun(p)
    \/ StopRefresh(p)
    \/ \E name \in names, keepVolume \in BOOLEAN : BeginDelete(p, name, keepVolume)
    \/ DeleteContainer(p)
    \/ DeleteVolumeStep(p)

\* One caller: the API calls run one after the other, on every name.
Next == \E p \in SeqProcs : Calls(p, Names, MaxIds) \/ Return(p)

Spec == Init /\ [][Next]_vars

\* NumCallers callers on one environment name: the calls interleave at every
\* runtime request.
ConcNext == \E p \in Procs : Calls(p, ConcNames, MaxConcIds) \/ ConcReturn(p)

ConcSpec == Init /\ [][ConcNext]_vars

\* One PTY session from the start of execInContainer (the relay goroutine is
\* running) to the end of the session, under a caller that resizes its window.
ResizeNext ==
    \/ WindowChange
    \/ handleWindowResizeRecv
    \/ handleWindowResizeSend
    \/ handleWindowResizeDone
    \/ ContainerExecCreate
    \/ ContainerExecAttach
    \/ GoResizeLoop
    \/ ResizeLoopRange
    \/ ResizeLoopResize
    \/ SetInitialSize
    \/ GoCopyStreams
    \/ RemoteExits
    \/ StdinCopyEnds
    \/ StdoutCopyEnds
    \/ ExecDone
    \/ ContainerExecInspect
    \/ SessionExit
    \/ CallerDisconnect
    \/ SessionClosed

ResizeSpec == Init /\ [][ResizeNext]_vars

\* No API call, no bridge and no poll is running.
IdleInit ==
    /\ pc = [p \in Procs |-> "idle"]
    /\ req = [p \in Procs |-> NoReq]
    /\ loc = [p \in Procs |-> NoLoc]
    /\ res = [p \in Procs |-> NoResponse]
    /\ hist = [p \in Procs |-> NoHist]
    /\ faulted = FALSE
    /\ scen = NoScen
    /\ winCh = <<>>
    /\ sent = 0
    /\ relay = [pc |-> "none", win |-> NoSize]
    /\ resizeChan = [buf |-> <<>>, closed |-> FALSE]
    /\ exec = "none"
    /\ loop = [pc |-> "none", size |-> NoSize]
    /\ ptySize = NoSize
    /\ ctxDone = FALSE
    /\ resizeFailed = FALSE
    /\ stdinCopy = "none"
    /\ stdoutCopy = "none"
    /\ remote = NoExit
    /\ execErr = "none"
    /\ terminal = NoExit
    /\ elapsed = 0
    /\ connCalls = {}

\* The same, in a runtime without volumes.
QuietInit ==
    /\ volumes = {}
    /\ nextId = 1
    /\ IdleInit

\* No call of the multiplexer adapter and no parse.
MuxIdle ==
    /\ tmux = [state |-> "ok", sessions |-> {}]
    /\ mux = NoMux

ParseIdle ==
    /\ output = <<>>
    /\ queried = <<"a">>
    /\ sessions = [sessions |-> <<>>, err |-> "none"]

\* A connection arrives for some user, while the environment "a" may exist in
\* any state; no bridge is running yet.
ConnInit ==
    /\ \/ containers = [c \in {} |-> 0]
       \/ \E st \in ContainerStates :
            containers = (ContainerName(<<"a">>) :>
                            [id |-> 1, state |-> st, shed |-> TRUE, by |-> "other"])
    /\ QuietInit
    /\ \E user \in Users : conn = NoConn(user)
    /\ MuxIdle
    /\ ParseIdle
    /\ ExtraIdle

\* handleSession up to the call of ExecInContainer, under a runtime whose
\* container changes and a caller that may disconnect.
ConnNext ==
    \/ RuntimeEvent
    \/ CallerDisconnect
    \/ handleSessionBegin
    \/ LookUpShed
    \/ AutoStartCheck
    \/ AutoStartRun
    \/ AutoStartRefresh
    \/ waitForReadyTick
    \/ waitForReadyDone
    \/ RefreshShed
    \/ VerifyRunning

ConnSpec == ConnInit /\ [][ConnNext]_vars

\* The ticker of waitForReady delivers a tick every poll interval as long as
\* the loop runs.
ConnFairSpec == ConnSpec /\ WF_vars(waitForReadyTick)

\* The lines of the listing outputs: two sessions as tmux prints them, the
\* "badline" of the tests, blank lines, lines with fields that are not
\* numbers, a flag other than 0 and 1, padding, three fields and five fields.
Lines ==
    {<<"s", ":", "5", ":", "1", ":", "2">>,
     <<"t", ":", "7", ":", "0", ":", "1">>,
     <<"b", "a", "d">>,
     <<>>,
     <<" ">>,
     <<"u", ":", "x", ":", "1", ":", "y">>,
     <<"v", ":", "3", ":", "2", ":", "1">>,
     <<" ", "w", ":", "1", ":", "1", ":", "1">>,
     <<"a", ":", "b", ":", "c">>,
     <<"z", ":", "1", ":", "0", ":", "1", ":", "9">>}

\* strings.Join(lines, "\n")
RECURSIVE JoinLines(_)
JoinLines(lines) ==
    IF lines = <<>> THEN <<>>
    ELSE IF Len(lines) = 1 THEN lines[1]
    ELSE lines[1] \o <<"\n">> \o JoinLines(Tail(lines))

\* The listing outputs of at most MaxLines lines.
Outputs == {JoinLines(ls) : ls \in UNION {[1..n -> Lines] : n \in 0..MaxLines}}

ShedNames == {<<"a">>, <<"b">>}

\* A caller of parseTmuxSessions with some output and shed name.
ParseInit ==
    /\ containers = [c \in {} |-> 0]
    /\ QuietInit
    /\ conn = NoConn(<<"a">>)
    /\ MuxIdle
    /\ ExtraIdle
    /\ output \in Outputs
    /\ queried \in ShedNames
    /\ sessions = [sessions |-> <<>>, err |-> "none"]

\* sessions, err := parseTmuxSessions(output, shedName)
ParseListing ==
    /\ sessions.err = "none"
    /\ sessions' = parseTmuxSessions(output, queried)
    /\ UNCHANGED <<lifecycleVars, sessionVars, connVars, muxVars, output, queried, extraVars>>

ParseNext == ParseListing

ParseSpec == ParseInit /\ [][ParseNext]_vars

\* Callers of the adapter for environment "a", whose container may exist in
\* any state and holds any tmux.
MuxInit ==
    /\ \/ containers = [c \in {} |-> 0]
       \/ \E st \in ContainerStates :
            containers = (ContainerName(<<"a">>) :>
                            [id |-> 1, state |-> st, shed |-> TRUE, by |-> "other"])
    /\ QuietInit
    /\ conn = NoConn(<<"a">>)
    /\ tmux \in TmuxStates
    /\ mux = NoMux
    /\ ParseIdle
    /\ ExtraIdle

MuxNext ==
    \/ RuntimeEvent
    \/ TmuxEvent
    \/ MuxCall
    \/ ListSessionsCheck
    \/ ListSessionsExec
    \/ SessionExistsCheck
    \/ SessionExistsExec
    \/ KillSessionCheck
    \/ KillSessionExec
    \/ MuxReturn

MuxSpec == MuxInit /\ [][MuxNext]_vars

\* One API caller on environment "a", in a runtime that may already hold a
\* container of that name in any state, with or without the shed label, and
\* the volume of that name; the caller's create requests name a repository or
\* do not.
EnvInit ==
    /\ \/ containers = [c \in {} |-> 0] /\ nextId = 1
       \/ /\ \E st \in ContainerStates, label \in BOOLEAN :
               containers = (ContainerName(<<"a">>) :>
                               [id |-> 1, state |-> st, shed |-> label, by |-> "other"])
          /\ nextId = 2
    /\ volumes \in {{}, {VolumeName(<<"a">>)}}
    /\ IdleInit
    /\ conn = NoConn(<<"a">>)
    /\ MuxIdle
    /\ ParseIdle
    /\ \E repo \in BOOLEAN : seed = [p \in Procs |-> [repo |-> repo]]
    /\ FnIdle
    /\ CfgIdle
    /\ PeerIdle

EnvNext == \E p \in SeqProcs : Calls(p, ConcNames, MaxIds) \/ CloneStep(p) \/ Return(p)

EnvSpec == EnvInit /\ [][EnvNext]_vars

-----------------------------------------------------------------------------
(* The two status mappings: containerStateToStatus, inspectStateToStatus   *)

\* func containerStateToStatus(state string) string, on the State string of a
\* listed container.
containerStateToStatus(state) ==
    IF state = "running" THEN StatusRunning
    ELSE IF state \in {"created", "exited", "dead"} THEN StatusStopped
    ELSE IF state \in {"restarting", "paused"} THEN StatusStarting
    ELSE StatusError

\* The states the runtime reports for the containers of a listing: those of
\* ContainerStates and "removing", a state none of the mappings names.
ReportedStates == ContainerStates \cup {"removing"}

\* The runtime states of at most MaxListed containers.
Listings == UNION {[1..n -> ReportedStates] : n \in 0..MaxListed}

NoStatuses == [list |-> <<>>, resolve |-> <<>>, listed |-> FALSE, resolved |-> FALSE]

\* Some containers, each in some runtime state, before list and resolve.
StatusInit ==
    /\ containers = [c \in {} |-> 0]
    /\ QuietInit
    /\ conn = NoConn(<<"a">>)
    /\ MuxIdle
    /\ ParseIdle
    /\ SeedIdle
    /\ CfgIdle
    /\ PeerIdle
    /\ arg \in Listings
    /\ val = NoStatuses

\* ListSheds: containerToShed maps the State of every listed container.
ListStatuses ==
    /\ ~val.listed
    /\ val' = [val EXCEPT !.listed = TRUE,
                          !.list = [i \in DOMAIN arg |-> containerStateToStatus(arg[i])]]
    /\ UNCHANGED <<lifecycleVars, sessionVars, connVars, muxVars, parseVars, seed, arg,
                   clientCfg, peer>>

\* GetShed of every container: inspectToShed maps the inspected State.
ResolveStatuses ==
    /\ ~val.resolved
    /\ val' = [val EXCEPT !.resolved = TRUE,
                          !.resolve = [i \in DOMAIN arg |->
                                         inspectStateToStatus(InspectState(arg[i]))]]
    /\ UNCHANGED <<lifecycleVars, sessionVars, connVars, muxVars, parseVars, seed, arg,
                   clientCfg, peer>>

StatusNext == ListStatuses \/ ResolveStatuses

StatusSpec == StatusInit /\ [][StatusNext]_vars

-----------------------------------------------------------------------------
(* The error responses of the handlers for a failure of the runtime        *)

\* Error texts of the runtime for failures of its own.
RuntimeTexts ==
    {DaemonError, <<"dial unix /var/run/docker.sock", "connection refused">>,
     <<"context deadline exceeded">>, <<"permission denied">>}

\* The operations of the API whose handlers answer a runtime failure.
FailingOps ==
    {"list", "create", "resolve", "start", "stop", "delete", "sessions", "kill-session",
     "all-sessions"}

\* The error the docker client returns when the runtime fails the first
\* request of the operation with the text given.
ClientError(op, text) ==
    CASE op \in {"list", "all-sessions"} -> <<"failed to list containers">> \o text
      [] op = "create" -> <<"failed to create volume">> \o text
      [] op = "delete" -> <<"failed to remove container">> \o text
      [] OTHER -> <<"failed to inspect container">> \o text

\* sanitizeErrorMessage: the part of the message from "shed " on (none of the
\* messages of the client has a colon after it), or the context.
sanitizeErrorMessage(errMsg, context) ==
    IF Contains(errMsg, "shed")
    THEN SubSeq(errMsg, CHOOSE i \in 1..Len(errMsg) :
                            errMsg[i] = "shed" /\ \A j \in 1..(i - 1) : errMsg[j] # "shed",
                Len(errMsg))
    ELSE <<context>>

\* The message mapDockerError returns with its status and code.
mapDockerErrorMessage(err) ==
    IF Contains(err, "not found") THEN sanitizeErrorMessage(err, "not found")
    ELSE IF Contains(err, "already exists") THEN sanitizeErrorMessage(err, "already exists")
    ELSE IF Contains(err, "already running") THEN sanitizeErrorMessage(err, "already running")
    ELSE IF Contains(err, "already stopped") \/ Contains(err, "not running")
         THEN sanitizeErrorMessage(err, "not running")
    ELSE <<"internal server error">>

mapSessionError(err) ==
    IF Contains(err, "session not found")
    THEN [http |-> 404, code |-> "SESSION_NOT_FOUND", msg |-> err]
    ELSE IF Contains(err, ErrTmuxNotAvailable)
    THEN [http |-> 503, code |-> "TMUX_NOT_AVAILABLE", msg |-> <<ErrTmuxNotAvailable>>]
    ELSE IF Contains(err, "not running")
    THEN [http |-> 409, code |-> ErrShedAlreadyStopped, msg |-> err]
    ELSE IF Contains(err, "not found")
    THEN [http |-> 404, code |-> ErrShedNotFound, msg |-> err]
    ELSE [http |-> 500, code |-> ErrDockerError, msg |-> <<"internal server error">>]

\* What the handler of the operation writes for the error of the client:
\* handleListSheds and handleListAllSessions write err.Error() itself.
HandlerError(op, err) ==
    IF op \in {"list", "all-sessions"}
    THEN [http |-> 500, code |-> ErrDockerError, msg |-> err]
    ELSE IF op \in {"sessions", "kill-session"} THEN mapSessionError(err)
    ELSE [http |-> mapDockerError(err).http, code |-> mapDockerError(err).code,
          msg |-> mapDockerErrorMessage(err)]

NoAnswer == [http |-> 0, code |-> "none", msg |-> <<>>]

\* An operation, and two error texts of the runtime for its failure.
FailInit ==
    /\ containers = [c \in {} |-> 0]
    /\ QuietInit
    /\ conn = NoConn(<<"a">>)
    /\ MuxIdle
    /\ ParseIdle
    /\ SeedIdle
    /\ CfgIdle
    /\ PeerIdle
    /\ arg \in [op : FailingOps, first : RuntimeTexts, second : RuntimeTexts]
    /\ val = [first |-> NoAnswer, second |-> NoAnswer]

\* The operation fails with the first text, and with the second.
AnswerFirst ==
    /\ val.first = NoAnswer
    /\ val' = [val EXCEPT !.first = HandlerError(arg.op, ClientError(arg.op, arg.first))]
    /\ UNCHANGED <<lifecycleVars, sessionVars, connVars, muxVars, parseVars, seed, arg,
                   clientCfg, peer>>

AnswerSecond ==
    /\ val.second = NoAnswer
    /\ val' = [val EXCEPT !.second = HandlerError(arg.op, ClientError(arg.op, arg.second))]
    /\ UNCHANGED <<lifecycleVars, sessionVars, connVars, muxVars, parseVars, seed, arg,
                   clientCfg, peer>>

FailNext == AnswerFirst \/ AnswerSecond

FailSpec == FailInit /\ [][FailNext]_vars

-----------------------------------------------------------------------------
(* Properties of the lifecycle controller                                  *)

Done(p, op) == pc[p] = "done" /\ req[p].op = op

\* The environment a call found: a container of the name with the shed label.
Existing(p) == hist[p].cont # NoContainer /\ hist[p].cont.shed

WasRunning(p) == Existing(p) /\ hist[p].cont.state = "running"

WasStopped(p) == Existing(p) /\ hist[p].cont.state \in {"created", "exited", "dead"}

\* The runtime served every request of the call except possibly `call`.
OnlyFault(p, call) == hist[p].faults \subseteq {call}

\* C1: if the ContainerCreate step of create(name) fails (and the runtime
\* serves every other request of the call), then when create returns its
\* error the volume of name does not exist and no container of name exists.
C1_CreateFailureRollsBack ==
    \A p \in Procs :
        Done(p, "create") /\ "ContainerCreate" \in hist[p].failed
            /\ OnlyFault(p, "ContainerCreate")
        => /\ res[p].code # "OK"
           /\ ~VolumeExists(req[p].name)
           /\ ~HasContainer(req[p].name)

GrammarFails(name) ==
    \/ name = <<>>
    \/ Len(name) > 63
    \/ name[1] \notin Lower
    \/ \E i \in 1..Len(name) : name[i] \notin Lower \cup Digit \cup {"-"}
    \/ name[Len(name)] = "-"

\* C3: create with a name that fails the naming grammar returns the
\* invalid-name error without any runtime request, and no volume or
\* container of such a name ever exists.
C3_InvalidNameNoSideEffects ==
    /\ \A p \in Procs :
         Done(p, "create") /\ GrammarFails(req[p].name)
         => /\ res[p] = writeError(400, ErrInvalidShedName)
            /\ hist[p].calls = {}
    /\ \A n \in Names :
         GrammarFails(n) => ~HasContainer(n) /\ ~VolumeExists(n)

C3_Witness ==
    \E p \in Procs :
        /\ Done(p, "create") /\ req[p].name = <<"b", "a", "d", " ", "n">>
        /\ volumes # {}

\* C4: start on an environment whose status reads running returns the
\* already-running conflict, stop on one whose status reads stopped the
\* already-stopped conflict; neither issues a ContainerStart or ContainerStop
\* and the container is left as it was.
C4_ConflictLeavesState ==
    \A p \in Procs :
        /\ Done(p, "start") /\ WasRunning(p) /\ FaultFree(p)
           => /\ res[p] = writeError(409, ErrShedAlreadyRunning)
              /\ hist[p].calls \cap {"ContainerStart", "ContainerStop"} = {}
              /\ HasContainer(req[p].name) /\ ContainerOf(req[p].name) = hist[p].cont
        /\ Done(p, "stop") /\ WasStopped(p) /\ FaultFree(p)
           => /\ res[p] = writeError(409, ErrShedAlreadyStopped)
              /\ hist[p].calls \cap {"ContainerStart", "ContainerStop"} = {}
              /\ HasContainer(req[p].name) /\ ContainerOf(req[p].name) = hist[p].cont

C4_Witness ==
    \E p \in Procs : Done(p, "stop") /\ WasStopped(p) /\ FaultFree(p)

\* What resolve answers after k steps of the scenario.
Expected(k) ==
    CASE k = 1 -> "running" [] k = 2 -> "stopped" [] k = 3 -> "running" [] k = 4 -> "NotFound"

\* C5: from a state with no container of a valid name n and with no runtime
\* failure, create(n), stop(n), start(n), delete(n, false) each succeed, and
\* resolve(n) answers running, stopped, running, NotFound after them.
C5_Scenario ==
    \A p \in SeqProcs :
        /\ pc[p] = "idle" /\ scen.k >= 1 => Resolve(scen.name) = Expected(scen.k)
        /\ Done(p, "resolve") /\ FaultFree(p) /\ scen.k >= 1 /\ req[p].name = scen.name
           => res[p] = IF scen.k = 4 THEN writeError(404, ErrShedNotFound)
                       ELSE writeJSON(200, Expected(scen.k))
        /\ Done(p, "create") /\ FaultFree(p) /\ req[p].name \in ValidNames
              /\ hist[p].cont = NoContainer
           => res[p] = writeJSON(201, "running")
        /\ Done(p, "stop") /\ FaultFree(p) /\ scen.k = 1 /\ req[p].name = scen.name
           => res[p] = writeJSON(200, "stopped")
        /\ Done(p, "start") /\ FaultFree(p) /\ scen.k = 2 /\ req[p].name = scen.name
           => res[p] = writeJSON(200, "running")
        /\ Done(p, "delete") /\ FaultFree(p) /\ scen.k = 3 /\ req[p].name = scen.name
              /\ ~req[p].keep
           => res[p] = writeJSON(204, "none")

C5_Witness ==
    \E p \in SeqProcs :
        Done(p, "resolve") /\ FaultFree(p) /\ scen.k = 4 /\ req[p].name = scen.name

\* C6 as stated: after a successful delete(name, keepVolume) of an existing
\* environment the container is gone; with keepVolume the volume it had still
\* exists, without keepVolume the volume does not exist.
C6_DeleteRemovesVolume ==
    \A p \in Procs :
        Done(p, "delete") /\ Ok(p) /\ Existing(p)
        => /\ ~HasContainer(req[p].name)
           /\ req[p].keep /\ hist[p].vol => VolumeExists(req[p].name)
           /\ ~req[p].keep => ~VolumeExists(req[p].name)

\* C6 amended: as C6, but without keepVolume the volume is gone only if the
\* runtime served the VolumeRemove request (its failure is logged and delete
\* still succeeds).
C6_DeleteKeepsOrRemovesVolume ==
    \A p \in Procs :
        Done(p, "delete") /\ Ok(p) /\ Existing(p)
        => /\ ~HasContainer(req[p].name)
           /\ req[p].keep /\ hist[p].vol => VolumeExists(req[p].name)
           /\ ~req[p].keep /\ "VolumeRemove" \notin hist[p].failed
              => "VolumeRemove" \in hist[p].calls /\ ~VolumeExists(req[p].name)

C6_Witness ==
    \E p \in Procs :
        /\ Done(p, "delete") /\ Ok(p) /\ Existing(p) /\ hist[p].vol
        /\ ~req[p].keep /\ "VolumeRemove" \notin hist[p].failed

\* C7: in every state reached without a runtime failure, a container of a
\* name exists only if the volume of that name exists.
C7_ContainerImpliesVolume ==
    ~faulted => \A n \in Names : HasContainer(n) => VolumeExists(n)

\* C8: create(name) for a name whose environment exists (container and
\* volume) answers the already-exists conflict and leaves both in place.
C8_DuplicateCreateConflict ==
    \A p \in Procs :
        Done(p, "create") /\ Existing(p) /\ hist[p].vol /\ FaultFree(p)
        => /\ res[p] = writeError(409, ErrShedAlreadyExists)
           /\ HasContainer(req[p].name)
           /\ VolumeExists(req[p].name)

\* C9: a start call that loses the race to a concurrent start call (its
\* ContainerStart finds the container already started by the other) answers
\* the already-running conflict of the pre-check.
C9_RaceLoserConflict ==
    \A p \in Procs :
        Done(p, "start") /\ WasStopped(p) /\ hist[p].raced = "start" /\ ~faulted
        => res[p] = writeError(409, ErrShedAlreadyRunning)

\* The session has settled: the caller has sent events, every queue is empty
\* and every goroutine is waiting for input, with the remote exec running.
Settled ==
    /\ sent >= 1
    /\ winCh = <<>>
    /\ relay.pc = "select"
    /\ resizeChan.buf = <<>>
    /\ loop.pc = "range"
    /\ exec = "wait"

\* C10: once a PTY session has settled after a burst of window-change
\* events, with no resize request failed, the remote exec's PTY has the
\* dimensions of the last event of the burst.
C10_LastResizeApplied ==
    Settled /\ ~resizeFailed => ptySize = TerminalSize(Window(sent))

\* A settled session whose PTY has the dimensions of an event that is not the
\* last one: the last event found the queue full and was skipped.
C10_Witness ==
    /\ Settled /\ ~resizeFailed
    /\ ptySize # InitialSize
    /\ ptySize # TerminalSize(Window(sent))

\* ExecInContainer has asked the runtime for the exec's exit status.
Inspected ==
    \/ exec = "inspect"
    \/ execErr \in {"nil", "command exited with code", "failed to inspect exec"}

\* C11: the exit status is fetched only after the remote-output copy has
\* completed, and once that copy has completed the bridge goes on to fetch
\* the exit status and return whether or not the caller-input copy has
\* completed.
C11_TeardownOnOutputOnly ==
    /\ Inspected => stdoutCopy = "done"
    /\ exec = "wait" /\ stdoutCopy = "done" => ENABLED ExecDone
    /\ exec = "inspect" => ENABLED ContainerExecInspect

C11_Witness ==
    /\ exec = "returned" /\ execErr = "nil"
    /\ stdoutCopy = "done" /\ stdinCopy = "copying"

\* C12: the exit status the caller receives equals the remote process's exit
\* code (the runtime having served every request of the connection and the
\* caller still being connected).
C12_TerminalIsExitCode ==
    /\ terminal.exited /\ remote.exited /\ ~ctxDone
    /\ execErr \in {"nil", "command exited with code"}
    => terminal.code = remote.code

\* C13: once the connection's context is cancelled and the resize relay and
\* the resize loop have nothing left to do, the bridge is not left waiting
\* for a remote-output copy that is still blocked on a silent remote process.
C13_CancelStopsBridge ==
    /\ ctxDone /\ exec = "wait"
    /\ relay.pc = "returned"
    /\ loop.pc = "range" /\ resizeChan.buf = <<>>
    => stdoutCopy = "done"

\* The readiness poll is running.
Polling == conn.pc = "wait_ready"

\* C14: after an auto-start the readiness poll always terminates: it returns
\* success only when a poll observed running, fails when a poll observed
\* error, fails with the timeout error only once the deadline has passed,
\* returns the cancellation error only when the context is cancelled, polls
\* only before the deadline, and never keeps polling forever.
C14_ReadinessPollTerminates ==
    /\ [](Polling => elapsed * containerReadyPollInterval < containerReadyTimeout)
    /\ [](conn.pc = "refresh" => conn.err = "nil" /\ conn.status = StatusRunning)
    /\ [](conn.err = "shed entered error state" => conn.status = StatusError)
    /\ [](conn.err = "timeout waiting for shed to be ready" =>
             elapsed * containerReadyPollInterval >= containerReadyTimeout)
    /\ [](conn.err = "context canceled" => ctxDone)
    /\ [](conn.err \in {"shed entered error state", "timeout waiting for shed to be ready",
                        "context canceled"} => terminal = Exit(1))
    /\ (Polling ~> ~Polling)

\* The poll ran until the deadline and the connection failed with the timeout.
C14_Witness ==
    /\ conn.pc = "returned"
    /\ conn.err = "timeout waiting for shed to be ready"
    /\ elapsed * containerReadyPollInterval >= containerReadyTimeout
    /\ terminal = Exit(1)

\* C15: a connection that finds the environment in a status other than
\* running or stopped waits for it to become running as after an auto-start,
\* and does not fail before that wait.
C15_OtherStatusWaits ==
    conn.seen \notin {"none", StatusRunning, StatusStopped} /\ conn.pc = "returned"
        => "waitForReady" \in connCalls

\* The connection found the environment in status error.
C15_Witness ==
    /\ conn.seen = StatusError
    /\ conn.pc = "returned"
    /\ terminal = Exit(1)

\* C16: a connection with the reserved user name or the empty name is
\* rejected without any call to the runtime, a connection whose environment
\* is not found is rejected without a start or an exec, and both get a
\* non-zero terminal result.
C16_RejectedBeforeWork ==
    /\ conn.user \in {reservedAPIUser, <<>>} =>
          /\ connCalls = {}
          /\ exec = "none"
          /\ conn.pc = "returned" => terminal.exited /\ terminal.code # 0
    /\ conn.err = "not found" =>
          /\ connCalls = {"GetShed"}
          /\ exec = "none"
          /\ terminal.exited /\ terminal.code # 0

\* The connection of a user without an environment was rejected.
C16_Witness ==
    /\ conn.user = <<"b">>
    /\ conn.err = "not found"
    /\ conn.pc = "returned"
    /\ terminal = Exit(1)

\* parseTmuxSessions has been called.
Parsed == sessions.err # "none"

\* The lines of the output as written, each without its surrounding blanks.
RawLines == [i \in 1..Len(Split(output, "\n")) |-> TrimSpace(Split(output, "\n")[i])]

Fields(i) == Split(RawLines[i], ":")

IsNumber(str) == str # <<>> /\ \A i \in 1..Len(str) : str[i] \in Digit

\* A line of the format name:createdUnixTimestamp:attachedFlag:windowCount.
WellFormed(i) ==
    /\ Len(Fields(i)) = 4
    /\ Fields(i)[1] # <<>>
    /\ IsNumber(Fields(i)[2])
    /\ IsNumber(Fields(i)[3])
    /\ IsNumber(Fields(i)[4])

\* The lines with at least four fields, and the k-th of them.
FourFieldLines == {i \in DOMAIN RawLines : Len(Fields(i)) >= 4}

KthLine(k) == CHOOSE i \in FourFieldLines : Cardinality({j \in FourFieldLines : j <= i}) = k

\* Every entry carries the tag of the queried environment and the attached
\* flag of its line, and the listing never fails.
EntriesTagged ==
    /\ sessions.err = "nil"
    /\ \A k \in 1..Len(sessions.sessions) :
         /\ sessions.sessions[k].ShedName = queried
         /\ k <= Cardinality(FourFieldLines) =>
              /\ sessions.sessions[k].Name = Fields(KthLine(k))[1]
              /\ sessions.sessions[k].Attached = (Fields(KthLine(k))[3] = <<"1">>)

\* C20 (as stated): the parser returns exactly one entry per well-formed line
\* name:createdUnixTimestamp:attachedFlag:windowCount and none for any other
\* line, never fails, sets Attached iff the flag is '1' and tags every entry
\* with the queried environment's name.
C20_OnePerWellFormedLine ==
    Parsed =>
        /\ Len(sessions.sessions) = Cardinality({i \in DOMAIN RawLines : WellFormed(i)})
        /\ EntriesTagged

\* C20 (amended): the parser returns exactly one entry, in the order of the
\* lines, per line that has at least four ':'-separated fields once its
\* surrounding blanks are removed, whatever the fields hold, and none for a
\* blank line or a line with fewer fields; it never fails, sets Attached iff
\* the third field is '1' and tags every entry with the queried name.
C20_OnePerFourFieldLine ==
    Parsed =>
        /\ Len(sessions.sessions) = Cardinality(FourFieldLines)
        /\ EntriesTagged

\* An output of two lines, one skipped and one kept although its timestamp is
\* not a number.
C20_Witness ==
    /\ Parsed
    /\ Len(RawLines) = 2
    /\ Len(sessions.sessions) = 1
    /\ sessions.sessions[1].CreatedAt = ZeroTime
    /\ sessions.sessions[1].Attached

\* The call of the adapter has returned.
MuxReturned == mux.pc = "returned"

Issued(cmd) == \E i \in 1..Len(mux.execs) : mux.execs[i] = cmd

\* C17: a kill whose probe was served returns the session-not-found error
\* and issues no terminate command if the session was absent when probed; if
\* it was present the terminate command is issued, and the kill returns an
\* error iff the exit code of that command is not zero.
C17_KillProbesFirst ==
    /\ Issued("kill-session") => Issued("has-session") /\ mux.probe = <<0>>
    /\ MuxReturned /\ mux.op = "kill" /\ mux.probe # <<-1>> /\ mux.present = "no" =>
          mux.err = ErrSessionNotFound /\ ~Issued("kill-session")
    /\ MuxReturned /\ mux.op = "kill" /\ mux.probe # <<-1>> /\ mux.present = "yes" =>
          /\ Issued("kill-session")
          /\ (mux.err # "nil") = (mux.code # <<0>>)
          /\ mux.err # ErrSessionNotFound

\* A kill found the session, which another client killed before the
\* terminate command ran: the command was issued and its exit code reported.
C17_Witness ==
    /\ MuxReturned
    /\ mux.op = "kill"
    /\ mux.present = "yes"
    /\ mux.execs = <<"has-session", "kill-session">>
    /\ mux.code = <<1>>
    /\ mux.err = "tmux kill-session failed"

\* C18: list, exists and kill return an error and have issued no exec when
\* a check of the environment found it missing or not running.
C18_NotRunningNoExec ==
    /\ MuxReturned /\ mux.checked # StatusRunning => mux.err # "nil" /\ mux.execs = <<>>
    /\ mux.execs # <<>> => mux.checked = StatusRunning

\* A kill whose check found the environment stopped: an error and no exec.
C18_Witness ==
    /\ MuxReturned
    /\ mux.op = "kill"
    /\ mux.checked = StatusStopped
    /\ mux.err = "shed is not running"
    /\ mux.execs = <<>>

CloneFailed(p) == Done(p, "create") /\ "ContainerExec" \in hist[p].failed

FoundInError(p) ==
    /\ pc[p] = "done"
    /\ req[p].op \in {"start", "stop"}
    /\ Existing(p)
    /\ inspectStateToStatus(InspectState(hist[p].cont.state)) = StatusError

\* C23: a start or a stop of an environment whose status is error leaves its
\* status error.
C23_ErrorIsSticky ==
    \A p \in SeqProcs : FoundInError(p) => Resolve(req[p].name) = StatusError

\* A start of an environment in status error has answered running.
C23_Witness ==
    /\ FoundInError(1)
    /\ req[1].op = "start"
    /\ res[1] = writeJSON(200, StatusRunning)
    /\ Resolve(req[1].name) = StatusRunning

\* C24: a delete of a name that resolves to no environment (no container, or
\* a container without the shed label) answers NotFound and removes neither a
\* container nor a volume.
C24_DeleteMissingNotFound ==
    \A p \in SeqProcs :
        Done(p, "delete") /\ ~Existing(p) =>
            /\ res[p].code = ErrShedNotFound
            /\ hist[p].cont # NoContainer => HasContainer(req[p].name)
            /\ hist[p].vol => VolumeExists(req[p].name)

\* A delete of a name without a container has answered 204 and removed the
\* volume of that name.
C24_Witness ==
    /\ Done(1, "delete")
    /\ hist[1].cont = NoContainer
    /\ hist[1].vol
    /\ res[1].http = 204
    /\ ~VolumeExists(req[1].name)

\* The mapping of the specification: running gives running; created, exited
\* and dead give stopped; restarting and paused give starting; any other
\* state gives error.
lifecycleStatus(state) ==
    CASE state = "running" -> StatusRunning
      [] state \in {"created", "exited", "dead"} -> StatusStopped
      [] state \in {"restarting", "paused"} -> StatusStarting
      [] OTHER -> StatusError

\* C22: for every container, whatever state the runtime reports, list and
\* resolve report the same status, the one the mapping of the specification
\* gives.
C22_SameStatus ==
    val.listed /\ val.resolved =>
        \A i \in DOMAIN arg :
            /\ val.list[i] = val.resolve[i]
            /\ val.list[i] = lifecycleStatus(arg[i])

\* A paused container has been listed and resolved.
C22_Witness ==
    /\ val.listed
    /\ val.resolved
    /\ arg = <<"paused">>
    /\ val.list = <<StatusStarting>>
    /\ val.resolve = <<StatusRunning>>

\* C25: for a failure of the runtime that is none of the classified
\* conditions, the response carries the generic runtime-error classification
\* and a fixed message: it is the same for any two error texts of the
\* runtime, for every operation.
C25_GenericErrorFixed ==
    val.first # NoAnswer /\ val.second # NoAnswer =>
        /\ val.first = val.second
        /\ val.first = [http |-> 500, code |-> ErrDockerError,
                        msg |-> <<"internal server error">>]

\* list has failed with two error texts and answered each of them verbatim.
C25_Witness ==
    /\ arg.op = "list"
    /\ arg.first # arg.second
    /\ val.first.msg = <<"failed to list containers">> \o arg.first
    /\ val.second.msg = <<"failed to list containers">> \o arg.second

\* C26: the resize relay never blocks: the send of an event it has received
\* can always be taken, it enqueues the event or drops it, after it the relay
\* is back at reading the next event (or has returned on ctx.Done()), and the
\* queue never holds more than ResizeChanCap entries.
C26_RelayNeverBlocks ==
    /\ Len(resizeChan.buf) <= ResizeChanCap
    /\ relay.pc = "send" => ENABLED handleWindowResizeSend
    /\ relay.pc \in {"none", "select", "send", "returned"}

\* The relay has dropped an event on the full queue and reads the next one.
C26_Witness ==
    /\ Len(resizeChan.buf) = ResizeChanCap
    /\ relay.pc = "select"
    /\ sent > ResizeChanCap
    /\ ~resizeChan.closed
    /\ \A i \in 1..Len(resizeChan.buf) : resizeChan.buf[i] # TerminalSize(Window(sent))
    /\ winCh = <<>>

\* C29: the resize relay never sends on the resize queue after the bridge
\* has closed it.
C29_NoSendOnClosedQueue == ~(relay.pc = "panic" /\ resizeChan.closed)

\* The exec call has returned and closed the queue while the session context
\* is live, and the relay has sent a window change on the closed queue.
C29_Witness ==
    /\ exec = "returned"
    /\ resizeChan.closed
    /\ ~ctxDone
    /\ relay.pc = "panic"

-----------------------------------------------------------------------------
(* internal/config/types.go: ContainerName and VolumeName of two names     *)

MaxPairLen == 3

PairChars == {"a", "b", "1", "-"}

\* The names of up to MaxPairLen characters that ValidateShedName accepts.
PairNames ==
    {n \in UNION {[1..k -> PairChars] : k \in 1..MaxPairLen} : ValidateShedName(n) = <<>>}

NoNaming == [container |-> <<>>, volume |-> <<>>]

\* A caller holding two valid names, neither named yet.
NameInit ==
    /\ containers = [c \in {} |-> 0]
    /\ QuietInit
    /\ conn = NoConn(<<"a">>)
    /\ MuxIdle
    /\ ParseIdle
    /\ SeedIdle
    /\ CfgIdle
    /\ PeerIdle
    /\ arg \in [first : PairNames, second : PairNames]
    /\ val = [first |-> NoNaming, second |-> NoNaming]

Naming(shedName) == [container |-> ContainerName(shedName), volume |-> VolumeName(shedName)]

NameFirst ==
    /\ val.first = NoNaming
    /\ val' = [val EXCEPT !.first = Naming(arg.first)]
    /\ UNCHANGED <<lifecycleVars, sessionVars, connVars, muxVars, parseVars, seed, arg,
                   clientCfg, peer>>

NameSecond ==
    /\ val.second = NoNaming
    /\ val' = [val EXCEPT !.second = Naming(arg.second)]
    /\ UNCHANGED <<lifecycleVars, sessionVars, connVars, muxVars, parseVars, seed, arg,
                   clientCfg, peer>>

NameNext == NameFirst \/ NameSecond

NameSpec == NameInit /\ [][NameNext]_vars

\* C27: two different valid names have different container names and
\* different volume names.
C27_NamesInjective ==
    (/\ val.first # NoNaming
     /\ val.second # NoNaming
     /\ arg.first # arg.second)
        => /\ val.first.container # val.second.container
           /\ val.first.volume # val.second.volume

\* Both names are named, and one is the other followed by "-1".
C27_Witness ==
    /\ val.first # NoNaming
    /\ val.second # NoNaming
    /\ arg.second = arg.first \o <<"-", "1">>
    /\ val.first.container = ContainerPrefix \o arg.first
    /\ val.second.volume = VolumePrefix \o arg.second \o VolumeSuffix

-----------------------------------------------------------------------------
(* internal/config/client.go: the servers of the client configuration      *)

NumServers == 4

\* The server names "s", "ss", ...; a server answers /api/info with the name
\* of its configuration, which is never empty.
ServerName(i) == [j \in 1..i |-> "s"]

ServerNames == {ServerName(i) : i \in 1..NumServers}

ConfigOps == {"AddServer", "RemoveServer", "SetDefaultServer"}

\* A configuration without servers, no call made yet.
CfgInit ==
    /\ containers = [c \in {} |-> 0]
    /\ QuietInit
    /\ conn = NoConn(<<"a">>)
    /\ MuxIdle
    /\ ParseIdle
    /\ SeedIdle
    /\ PeerIdle
    /\ clientCfg = NoServers
    /\ arg = [op |-> "none", name |-> <<>>]
    /\ val = NoServers

\* AddServer making every added server the default.
AddedDefault_Always(c, name) == name

\* The DefaultServer after AddServer has added name.
AddedDefault(c, name) == IF c.default = <<>> THEN name ELSE c.default

\* The values of DefaultServer after RemoveServer has deleted name: the
\* iteration order of the remaining servers is not fixed.
RemovedDefaults(c, name) ==
    IF c.default = name
    THEN IF c.servers \ {name} = {} THEN {<<>>} ELSE c.servers \ {name}
    ELSE {c.default}

CfgUnchanged ==
    UNCHANGED <<lifecycleVars, sessionVars, connVars, muxVars, parseVars, seed, peer>>

\* arg is the call, val the configuration it was made on.
AddServer(name) ==
    /\ arg' = [op |-> "AddServer", name |-> name]
    /\ val' = clientCfg
    /\ clientCfg' =
         IF name \in clientCfg.servers
         THEN [clientCfg EXCEPT !.err = "already exists"]
         ELSE [servers |-> clientCfg.servers \cup {name},
               default |-> AddedDefault(clientCfg, name),
               err |-> "none"]
    /\ CfgUnchanged

RemoveServer(name) ==
    /\ arg' = [op |-> "RemoveServer", name |-> name]
    /\ val' = clientCfg
    /\ IF name \notin clientCfg.servers
       THEN clientCfg' = [clientCfg EXCEPT !.err = "not found"]
       ELSE \E d \in RemovedDefaults(clientCfg, name) :
                clientCfg' = [servers |-> clientCfg.servers \ {name},
                              default |-> d,
                              err |-> "none"]
    /\ CfgUnchanged

SetDefaultServer(name) ==
    /\ arg' = [op |-> "SetDefaultServer", name |-> name]
    /\ val' = clientCfg
    /\ clientCfg' =
         IF name \notin clientCfg.servers
         THEN [clientCfg EXCEPT !.err = "not found"]
         ELSE [clientCfg EXCEPT !.default = name, !.err = "none"]
    /\ CfgUnchanged

CfgNext ==
    \E name \in ServerNames :
        \/ AddServer(name)
        \/ RemoveServer(name)
        \/ SetDefaultServer(name)

CfgSpec == CfgInit /\ [][CfgNext]_vars

-----------------------------------------------------------------------------
(* Two connections for the same stopped environment                        *)

\* The connection that is not at the processor: the handler of every session
\* runs in a goroutine of its own.
Parked(c, e, calls, t, x, r) ==
    [conn |-> c, elapsed |-> e, connCalls |-> calls, terminal |-> t, exec |-> x,
     relay |-> r, live |-> TRUE]

\* Two connections of user "a" arrive while the environment "a" is stopped.
PairInit ==
    /\ containers = (ContainerName(<<"a">>) :>
                       [id |-> 1, state |-> "exited", shed |-> TRUE, by |-> "other"])
    /\ QuietInit
    /\ conn = NoConn(<<"a">>)
    /\ MuxIdle
    /\ ParseIdle
    /\ SeedIdle
    /\ FnIdle
    /\ CfgIdle
    /\ peer = Parked(NoConn(<<"a">>), 0, {}, NoExit, "none", [pc |-> "none", win |-> NoSize])

\* The scheduler runs the other connection's handler.
Switch ==
    /\ peer.live
    /\ peer' = Parked(conn, elapsed, connCalls, terminal, exec, relay)
    /\ conn' = peer.conn
    /\ elapsed' = peer.elapsed
    /\ connCalls' = peer.connCalls
    /\ terminal' = peer.terminal
    /\ exec' = peer.exec
    /\ relay' = peer.relay
    /\ UNCHANGED <<containers, apiVars, bridgeVars, muxVars, parseVars, seed, arg, val,
                   clientCfg, ctxDone>>

PairNext ==
    \/ Switch
    \/ handleSessionBegin
    \/ LookUpShed
    \/ AutoStartCheck
    \/ AutoStartRun
    \/ AutoStartRefresh
    \/ waitForReadyTick
    \/ RefreshShed
    \/ VerifyRunning

PairSpec == PairInit /\ [][PairNext]_vars

\* The errors of a connection that a failed runtime request or a container
\* that does not report running in time explains.
RuntimeFailures ==
    {"not found", "failed to start shed", "failed to get shed after start",
     "timeout waiting for shed to be ready"}

\* C30: of two connections for the same stopped environment neither is failed
\* because the other one started the environment first: a connection fails
\* only on a failed runtime request, and a connection that goes on to the
\* bridge has the environment running.
C30_BothConnectionsBridge ==
    \A c \in {conn, peer.conn} :
        /\ c.pc = "returned" => c.err \in RuntimeFailures
        /\ c.pc = "exec" => ContainerOf(<<"a">>).state = "running"

\* One connection has started the environment and reached the bridge; the
\* other, which had found the environment stopped as well, is failed by the
\* pre-check of StartShed.
C30_Witness ==
    /\ conn.pc = "returned"
    /\ conn.seen = StatusStopped
    /\ conn.err = "failed to start shed: already running"
    /\ terminal = Exit(1)
    /\ peer.conn.pc = "exec"
    /\ peer.conn.seen = StatusStopped
    /\ ContainerOf(<<"a">>).state = "running"
    /\ ContainerOf(<<"a">>).by = "connect"

====
